---- MODULE Spec2Model ----
(***************************************************************************)
(* Verification model of the glimmer rendering kernel:                     *)
(*   - the tiled concurrent renderers (RendererPathTracer::render and      *)
(*     RendererSimpleRT::render): row partition, worker threads, join;     *)
(*   - the nearest-hit scan over the scene's objects;                      *)
(*   - the path-tracing integrator path_trace_.                            *)
(*                                                                         *)
(* Scalars are exact rationals <<n, d>> with d > 0 in lowest terms.        *)
(* Geometry is restricted to a "lane world": a ray travels along the z     *)
(* axis (direction dz in {1,-1}) inside one lane (its x cell), lengths are *)
(* counted in units of 1e-4, and a surface is given by its depth in every  *)
(* lane together with the z component nz of its unit normal, so that       *)
(* dot(direction, normal) = dz * nz.                                       *)
(***************************************************************************)
EXTENDS Integers, Sequences, FiniteSets, TLC

VARIABLES cfg, scene, out, writers, pc, threads, spawn_t, y0, join_i,
          scan, path, unit, thrown

vars == <<cfg, scene, out, writers, pc, threads, spawn_t, y0, join_i, scan, path,
          unit, thrown>>

(***************************************************************************)
(* Bounds of the model.                                                    *)
(***************************************************************************)
MaxHw == 3
MaxWidth == 2
MaxHeight == 3
MaxSpp == 2
MaxDepth == 5
MaxObjects == 3
ULevels == 3

(***************************************************************************)
(* Program constants.                                                      *)
(***************************************************************************)
DefaultHw == 4
RouletteDepth == 3
EpsOffset == 1

(***************************************************************************)
(* Exact rational arithmetic.  The operations are functions, so that an    *)
(* argument is evaluated once.                                             *)
(***************************************************************************)
Abs(a) == IF a < 0 THEN -a ELSE a

\* F applied to the value of v (v is evaluated once, before F)
Let(v, F(_)) == CHOOSE r \in {F(x) : x \in {v}} : TRUE

GCD[a \in Nat, b \in Nat] == IF b = 0 THEN a ELSE GCD[b, a % b]

Norm[n \in Int, d \in Int] ==
    LET s == IF d < 0 THEN -1 ELSE 1
        g == GCD[Abs(n), Abs(d)]
    IN  <<(s * n) \div g, (s * d) \div g>>

Rat(n, d) == Norm[n, d]

Q == Int \X Int
R0 == <<0, 1>>
R1 == <<1, 1>>
RInt(i) == <<i, 1>>

QNeg[a \in Q] == <<-a[1], a[2]>>
QAdd[a \in Q, b \in Q] ==
    LET g == GCD[a[2], b[2]]
    IN  Norm[a[1] * (b[2] \div g) + b[1] * (a[2] \div g), (a[2] \div g) * b[2]]
QMul[a \in Q, b \in Q] == <<Norm[a[1], b[2]][1] * Norm[b[1], a[2]][1],
                            Norm[a[1], b[2]][2] * Norm[b[1], a[2]][2]>>
QInv[a \in Q] == Norm[a[2], a[1]]
QLt[a \in Q, b \in Q] == a[1] * b[2] < b[1] * a[2]
QPow[a \in Q, k \in Nat] == IF k = 0 THEN R1 ELSE QMul[a, QPow[a, k - 1]]

RNeg(a) == QNeg[a]
RAdd(a, b) == QAdd[a, b]
RSub(a, b) == QAdd[a, QNeg[b]]
RMul(a, b) == QMul[a, b]
RDiv(a, b) == QMul[a, QInv[b]]
RLt(a, b) == QLt[a, b]
RLe(a, b) == ~QLt[b, a]

QMax[a \in Q, b \in Q] == IF QLt[a, b] THEN b ELSE a
QMin[a \in Q, b \in Q] == IF QLt[b, a] THEN b ELSE a
RMax(a, b) == QMax[a, b]
RMin(a, b) == QMin[a, b]

\* std::clamp(v, lo, hi)
QClamp[v \in Q, lo \in Q, hi \in Q] == IF QLt[v, lo] THEN lo ELSE IF QLt[hi, v] THEN hi ELSE v
RClamp(v, lo, hi) == QClamp[v, lo, hi]

RPow(a, k) == QPow[a, k]

(***************************************************************************)
(* Colours: Color<T,3> as a triple of rationals.                           *)
(***************************************************************************)
Q3 == Q \X Q \X Q
CZero == <<R0, R0, R0>>
COne == <<R1, R1, R1>>
CGrey(r) == <<r, r, r>>

Q3Add[a \in Q3, b \in Q3] == <<QAdd[a[1], b[1]], QAdd[a[2], b[2]], QAdd[a[3], b[3]]>>
Q3Scale[a \in Q3, s \in Q] == <<QMul[a[1], s], QMul[a[2], s], QMul[a[3], s]>>
Q3Mul[a \in Q3, b \in Q3] == <<QMul[a[1], b[1]], QMul[a[2], b[2]], QMul[a[3], b[3]]>>
Q3Max[c \in Q3] == QMax[c[1], QMax[c[2], c[3]]]

\* Color + Color, Color * scalar, Color / scalar
CAdd(a, b) == Q3Add[a, b]
CScale(a, s) == Q3Scale[a, s]
CDivS(a, s) == Q3Scale[a, QInv[s]]

\* detail_pt::hadamard
hadamard(a, b) == Q3Mul[a, b]

(***************************************************************************)
(* Materials: every property is sampled at a uv coordinate.  A property is *)
(* a pair <<value at even uv, value at odd uv>> (a uniform property has    *)
(* both equal, a checkerboard has them different).                         *)
(***************************************************************************)
Sample(prop, uv) == IF uv % 2 = 0 THEN prop[1] ELSE prop[2]
Uniform(v) == <<v, v>>

\* a floating-point value is a rational or a NaN, written 0/0; every
\* ordered comparison with a NaN is false
NaN == <<0, 0>>

FGt(a, b) == a # NaN /\ b # NaN /\ RLt(b, a)
FLt(a, b) == FGt(b, a)

\* Material::clamp01, clamp_nonneg, clamp_min_one
clamp01(v) == IF FLt(v, R0) THEN R0 ELSE IF FGt(v, R1) THEN R1 ELSE v
clamp_nonnegKeeps(v) == v
clamp_nonneg(v) == IF FLt(v, R0) THEN R0 ELSE v
clamp_min_one(v) == IF FLt(v, R1) THEN R1 ELSE v

MatAlbedo(m, uv) == Sample(m.albedo, uv)
MatRoughness(m, uv) == clamp01(Sample(m.roughness, uv))
MatRadiance(m, uv) == Sample(m.radiance, uv)
MatTransparency(m, uv) == clamp01(Sample(m.transparency, uv))
MatEmission(m, uv) == clamp_nonneg(Sample(m.emission, uv))
MatRefractiveIndex(m, uv) == clamp_min_one(Sample(m.ior, uv))

\* Material::Material(): black, opaque, roughness 0, no emission, ior 1
DefaultMaterial ==
    [albedo |-> Uniform(CZero), roughness |-> Uniform(R0), radiance |-> Uniform(CZero),
     transparency |-> Uniform(R0), emission |-> Uniform(R0), ior |-> Uniform(R1)]

\* Material::lambertian
lambertian(albedo) ==
    [DefaultMaterial EXCEPT !.albedo = Uniform(albedo)]

\* Material::metal
metal(albedo, roughness) ==
    [DefaultMaterial EXCEPT !.albedo = Uniform(albedo), !.roughness = Uniform(clamp01(roughness))]

\* Material::emissive(radiance, power)
emissive(radiance, power) ==
    [DefaultMaterial EXCEPT !.radiance = Uniform(radiance),
                            !.emission = Uniform(clamp_nonneg(power))]

\* Material::glass(albedo, roughness, transparency)
glass(albedo, roughness, transparency) ==
    [DefaultMaterial EXCEPT !.albedo = Uniform(albedo),
                            !.roughness = Uniform(clamp01(roughness)),
                            !.transparency = Uniform(clamp01(transparency)),
                            !.ior = Uniform(<<3, 2>>)]

\* Material::from_params(albedo, roughness, transparency, radiance, power)
from_params(albedo, roughness, transparency, radiance, power) ==
    [DefaultMaterial EXCEPT !.albedo = Uniform(albedo),
                            !.roughness = Uniform(clamp01(roughness)),
                            !.transparency = Uniform(clamp01(transparency)),
                            !.radiance = Uniform(radiance),
                            !.emission = Uniform(clamp_nonneg(power))]

(***************************************************************************)
(* Rays, boxes and geometry in the lane world.                             *)
(***************************************************************************)
NoHit == [hit |-> FALSE]

\* Ray<T>{origin, direction, tmin, tmax}
MkRay(x, z, dz, tmin, tmax) == [o |-> [x |-> x, z |-> z], d |-> dz, tmin |-> tmin, tmax |-> tmax]

\* Ray::at
RayAt(ray, t) == [x |-> ray.o.x, z |-> ray.o.z + ray.d * t]

SetMin(S) == CHOOSE a \in S : \A b \in S : a <= b
SetMax(S) == CHOOSE a \in S : \A b \in S : a >= b

\* AABB(): the empty box
EmptyBox == [empty |-> TRUE, xmin |-> 0, xmax |-> 0, zmin |-> 0, zmax |-> 0]

\* AABB::intersect, slabs over the x axis (direction component 0) and the
\* z axis (direction component ray.d)
AABBIntersect(box, ray) ==
    IF box.empty THEN NoHit
    ELSE IF ray.o.x < box.xmin \/ ray.o.x > box.xmax THEN NoHit
    ELSE LET a == (box.zmin - ray.o.z) * ray.d
             b == (box.zmax - ray.o.z) * ray.d
             t_near == IF a > b THEN b ELSE a
             t_far == IF a > b THEN a ELSE b
             t0 == IF t_near > ray.tmin THEN t_near ELSE ray.tmin
             t1 == IF t_far < ray.tmax THEN t_far ELSE ray.tmax
         IN  IF t1 < t0 THEN NoHit ELSE [hit |-> TRUE, t_near |-> t0, t_far |-> t1]

\* A geometry: a surface at depth z over the lanes in cover, reporting a
\* normal whose z component is nz.  NoGeom is the null geometry pointer.
NoGeom == [null |-> TRUE]
Surface(z, cover, nz) == [null |-> FALSE, z |-> z, cover |-> cover, nz |-> nz]

\* Geometry::aabb: the box over the surface's extent, empty without extent
GeomAabb(g) ==
    IF g.cover = {} THEN EmptyBox
    ELSE [empty |-> FALSE, xmin |-> SetMin(g.cover), xmax |-> SetMax(g.cover),
          zmin |-> g.z, zmax |-> g.z]

\* Geometry::intersect: nearest hit within [tmin, tmax], if any
GeomIntersect(g, ray) ==
    IF ray.o.x \notin g.cover THEN NoHit
    ELSE IF g.nz[1] * ray.d = 0 THEN NoHit
    ELSE LET t == (g.z - ray.o.z) * ray.d
         IN  IF t < ray.tmin \/ t > ray.tmax THEN NoHit
             ELSE [hit |-> TRUE, t |-> t, normal |-> g.nz, uv |-> ray.o.x]

(***************************************************************************)
(* SceneObject (identity transform): geometry, material, cached world box.  *)
(***************************************************************************)
\* SceneObject::update_aabb
update_aabb(g) == IF g.null THEN EmptyBox ELSE GeomAabb(g)

\* SceneObject(geom, material, xform)
SceneObject(g, m) == [geom |-> g, mat |-> m, aabb |-> update_aabb(g)]

\* SceneObject::aabb_hits_
aabb_hits_(obj, ray) == AABBIntersect(obj.aabb, ray).hit

\* SceneObject::intersect
ObjIntersect(obj, ray) ==
    IF obj.geom.null THEN NoHit
    ELSE IF ~aabb_hits_(obj, ray) THEN NoHit
    ELSE Let(GeomIntersect(obj.geom, ray), LAMBDA local_hit :
             IF ~local_hit.hit THEN NoHit
             ELSE IF local_hit.t < ray.tmin \/ local_hit.t > ray.tmax THEN NoHit
             ELSE local_hit)

(***************************************************************************)
(* Nearest-hit scan.                                                       *)
(***************************************************************************)
\* the acceptance test of a hit against the best one so far
ScanAcceptStrict(h, ray, best_t) == h.t >= ray.tmin /\ h.t < best_t
ScanAcceptAny(h, ray, best_t) == h.t >= ray.tmin
ScanAccept(h, ray, best_t) == h.t >= ray.tmin /\ h.t <= best_t

\* the state before the loop over scene.objects() (path_trace_)
ScanInit(ray) ==
    [any_hit |-> FALSE, best_t |-> ray.tmax, best_n |-> R0,
     best_p |-> [x |-> 0, z |-> 0], best_uv |-> 0, best_m |-> 0]

\* one iteration of the loop over scene.objects() in path_trace_; best_m is
\* the index of the object whose material is pointed to (0: nullptr)
ScanStep(st, objs, i, ray) ==
    IF ~AABBIntersect(objs[i].aabb, ray).hit THEN st
    ELSE Let(ObjIntersect(objs[i], ray), LAMBDA h :
             IF h.hit /\ ScanAccept(h, ray, st.best_t)
             THEN [any_hit |-> TRUE, best_t |-> h.t, best_n |-> h.normal,
                   best_p |-> RayAt(ray, h.t), best_uv |-> h.uv, best_m |-> i]
             ELSE st)

RECURSIVE ScanLoop(_, _, _, _)
ScanLoop(st, objs, i, ray) ==
    IF i > Len(objs) THEN st
    ELSE Let(ScanStep(st, objs, i, ray), LAMBDA nx : ScanLoop(nx, objs, i + 1, ray))

\* the nearest-hit scan of RendererPathTracer::path_trace_
NearestHit(objs, ray) == ScanLoop(ScanInit(ray), objs, 1, ray)

\* the nearest-hit scan of RendererSimpleRT::trace_ray
RECURSIVE SimpleScanLoop(_, _, _, _)
SimpleScanLoop(st, objs, i, ray) ==
    IF i > Len(objs) THEN st
    ELSE IF ~AABBIntersect(objs[i].aabb, ray).hit THEN SimpleScanLoop(st, objs, i + 1, ray)
    ELSE Let(ObjIntersect(objs[i], ray), LAMBDA h :
         Let(IF h.hit /\ h.t >= ray.tmin /\ h.t <= st.best_t
             THEN [any_hit |-> TRUE, best_t |-> h.t, best_n |-> h.normal, best_m |-> i]
             ELSE st, LAMBDA s1 :
             SimpleScanLoop(s1, objs, i + 1, ray)))

SimpleNearestHit(objs, ray) ==
    SimpleScanLoop([any_hit |-> FALSE, best_t |-> ray.tmax, best_n |-> R0, best_m |-> 0],
                   objs, 1, ray)

(***************************************************************************)
(* detail_pt helpers.  A direction is its z component; normalized() snaps  *)
(* a non-zero z component to 1 or -1.                                      *)
(***************************************************************************)
QSign[r \in Q] == IF r[1] < 0 THEN -1 ELSE 1
Sign(r) == QSign[r]

\* dot(direction, normal)
Dot(dz, nz) == RMul(RInt(dz), nz)

\* detail_pt::reflect followed by normalized()
reflect(dz, nz) == Sign(RSub(RInt(dz), RMul(nz, RMul(RInt(2), Dot(dz, nz)))))

\* detail_pt::refract: fails when k < 0 (total internal reflection); the
\* refracted direction v*eta + n*(eta*cosi - sqrt(k)) keeps the sign of v
refract(dz, nz, eta) ==
    LET cosi == RClamp(RNeg(Dot(dz, nz)), RNeg(R1), R1)
        k == RSub(R1, RMul(RMul(eta, eta), RSub(R1, RMul(cosi, cosi))))
    IN  [ok |-> ~RLt(k, R0), out |-> dz]

\* detail_pt::schlick
QSchlick[cos_theta \in Q, eta_i \in Q, eta_t \in Q] ==
    LET q0 == RDiv(RSub(eta_i, eta_t), RAdd(eta_i, eta_t))
        r0 == RMul(q0, q0)
    IN  RAdd(r0, RMul(RSub(R1, r0), RPow(RSub(R1, cos_theta), 5)))
schlick(cos_theta, eta_i, eta_t) == QSchlick[cos_theta, eta_i, eta_t]

\* detail_pt::cosine_sample_hemisphere and to_world followed by normalized():
\* the sampled direction lies in the hemisphere around n (exact for nz = 1, -1)
to_world(u1, u2, nz) == Sign(nz)

\* the floor of the probability divisors
ProbFloor == <<1, 1000>>

\* a uniform draw in [0, 1): level k < ULevels stands for k / ULevels, and
\* level ULevels for a draw close to 1
NearOne == <<9999, 10000>>
ULevelSet == 0..(ULevels - 1)
Uni(k) == IF k = ULevels THEN NearOne ELSE Rat(k, ULevels)

(***************************************************************************)
(* Russian roulette (path_trace_, depth >= 3).                             *)
(***************************************************************************)
CMax(c) == Q3Max[c]

RouletteQNoClamp(beta) == RSub(R1, CMax(beta))
RouletteQ(beta) == RSub(R1, RClamp(CMax(beta), R0, R1))

RouletteStopsFlipped(u, q) == RLt(q, u)
RouletteStops(u, q) == RLt(u, q)

RouletteNoScale(beta, q) == beta
RouletteScale(beta, q) == CDivS(beta, RSub(R1, q))

\* the test depth >= 3 that guards the roulette
RouletteDueEarly(depth) == depth >= RouletteDepth - 1
RouletteDue(depth) == depth >= RouletteDepth

(***************************************************************************)
(* One iteration of the loop of path_trace_.  us holds the uniform draws   *)
(* the iteration may consume, in order; used counts those it did consume.  *)
(***************************************************************************)
NoEvent == [kind |-> "start", hit_m |-> 0, rr |-> FALSE, q |-> R0, u |-> R0,
            beta_in |-> COne, beta_rr |-> COne, div |-> R1]

\* the loop test depth < max_depth_
LoopPcInclusive(depth, max_depth) == IF depth <= max_depth THEN "loop" ELSE "done"
LoopPc(depth, max_depth) == IF depth < max_depth THEN "loop" ELSE "done"

\* the radiance after a miss: L += hadamard(beta, background)
MissRadianceNoBackground(L, beta, background) == L
MissRadiance(L, beta, background) == CAdd(L, hadamard(beta, background))

\* the state on entry of path_trace_
PathStart(ray, max_depth) ==
    [pc |-> LoopPc(0, max_depth),
     ray |-> ray, L |-> CZero, beta |-> COne, depth |-> 0,
     queries |-> 0, draws |-> 0, ev |-> NoEvent]

\* the dielectric branch (transparency > 0)
Dielectric(st, hit, albedo, transparency, ior, beta, us, k) ==
    LET d == st.ray.d
        n == hit.best_n
        entering == RLt(Dot(d, n), R0)
        nl == IF entering THEN n ELSE RNeg(n)
        eta_i == IF entering THEN R1 ELSE ior
        eta_t == IF entering THEN ior ELSE R1
        eta == RDiv(eta_i, eta_t)
        cos_theta_i == RClamp(RNeg(Dot(d, nl)), R0, R1)
        rf == refract(d, nl, eta)
        refl == reflect(d, nl)
        spawn(dir) == [o |-> [x |-> hit.best_p.x, z |-> hit.best_p.z + dir * EpsOffset],
                       d |-> dir, tmin |-> st.ray.tmin, tmax |-> st.ray.tmax]
    IN  IF ~rf.ok
        THEN [kind |-> "tir", ray |-> spawn(refl), beta |-> hadamard(beta, albedo),
              div |-> R1, used |-> k]
        ELSE Let(schlick(cos_theta_i, eta_i, eta_t), LAMBDA R :
             IF RLt(Uni(us[k + 1]), R)
             THEN [kind |-> "reflect", ray |-> spawn(refl),
                   beta |-> CDivS(hadamard(beta, albedo), RMax(R, ProbFloor)),
                   div |-> RMax(R, ProbFloor), used |-> k + 1]
             ELSE [kind |-> "refract", ray |-> spawn(rf.out),
                   beta |-> CDivS(CScale(hadamard(beta, albedo), transparency),
                                  RMax(RSub(R1, R), ProbFloor)),
                   div |-> RMax(RSub(R1, R), ProbFloor), used |-> k + 1])

\* the opaque branch: specular with probability 1 - roughness, else diffuse
OpaqueDefaultRange(st, hit, albedo, roughness, beta, us, k) ==
    LET n == hit.best_n
        wo == -st.ray.d
        prob_spec == RClamp(RSub(R1, roughness), R0, R1)
        spawn(dir) == [o |-> [x |-> hit.best_p.x, z |-> hit.best_p.z + dir * EpsOffset],
                       d |-> dir, tmin |-> 0, tmax |-> st.ray.tmax]
    IN  IF RLt(Uni(us[k + 1]), prob_spec)
        THEN [kind |-> "specular", ray |-> spawn(reflect(-wo, n)),
              beta |-> CDivS(hadamard(beta, albedo), RMax(prob_spec, ProbFloor)),
              div |-> RMax(prob_spec, ProbFloor), used |-> k + 1]
        ELSE [kind |-> "diffuse", ray |-> spawn(to_world(Uni(us[k + 2]), Uni(us[k + 3]), n)),
              beta |-> CDivS(hadamard(beta, albedo), RMax(RSub(R1, prob_spec), ProbFloor)),
              div |-> RMax(RSub(R1, prob_spec), ProbFloor), used |-> k + 3]
Opaque(st, hit, albedo, roughness, beta, us, k) ==
    LET n == hit.best_n
        wo == -st.ray.d
        prob_spec == RClamp(RSub(R1, roughness), R0, R1)
        spawn(dir) == [o |-> [x |-> hit.best_p.x, z |-> hit.best_p.z + dir * EpsOffset],
                       d |-> dir, tmin |-> st.ray.tmin, tmax |-> st.ray.tmax]
    IN  IF RLt(Uni(us[k + 1]), prob_spec)
        THEN [kind |-> "specular", ray |-> spawn(reflect(-wo, n)),
              beta |-> CDivS(hadamard(beta, albedo), RMax(prob_spec, ProbFloor)),
              div |-> RMax(prob_spec, ProbFloor), used |-> k + 1]
        ELSE [kind |-> "diffuse", ray |-> spawn(to_world(Uni(us[k + 2]), Uni(us[k + 3]), n)),
              beta |-> CDivS(hadamard(beta, albedo), RMax(RSub(R1, prob_spec), ProbFloor)),
              div |-> RMax(RSub(R1, prob_spec), ProbFloor), used |-> k + 3]

\* the material terms sampled at the hit's uv
MaterialTermsWhite(m, uv) ==
    [emission |-> CScale(MatRadiance(m, uv), MatEmission(m, uv)),
     albedo |-> COne,
     roughness |-> MatRoughness(m, uv),
     transparency |-> MatTransparency(m, uv),
     ior |-> MatRefractiveIndex(m, uv)]
MaterialTerms(m, uv) ==
    [emission |-> CScale(MatRadiance(m, uv), MatEmission(m, uv)),
     albedo |-> MatAlbedo(m, uv),
     roughness |-> MatRoughness(m, uv),
     transparency |-> MatTransparency(m, uv),
     ior |-> MatRefractiveIndex(m, uv)]

\* the Russian roulette of one iteration: rr tells whether it is played, q
\* is the termination probability, u the draw, beta the throughput after it
RouletteTerms(st, us) ==
    IF RouletteDue(st.depth)
    THEN Let(RouletteQ(st.beta), LAMBDA q :
             [rr |-> TRUE, q |-> q, u |-> Uni(us[1]), stop |-> RouletteStops(Uni(us[1]), q),
              beta |-> IF RouletteStops(Uni(us[1]), q) THEN st.beta
                       ELSE RouletteScale(st.beta, q),
              used |-> 1])
    ELSE [rr |-> FALSE, q |-> R0, u |-> R0, stop |-> FALSE, beta |-> st.beta, used |-> 0]

\* the sampling of the next direction
ScatterOpaqueIfRough(st, hit, mt, beta, us, k) ==
    IF RLt(R0, mt.transparency) /\ mt.roughness = R0
    THEN Dielectric(st, hit, mt.albedo, mt.transparency, mt.ior, beta, us, k)
    ELSE Opaque(st, hit, mt.albedo, mt.roughness, beta, us, k)
Scatter(st, hit, mt, beta, us, k) ==
    IF RLt(R0, mt.transparency)
    THEN Dielectric(st, hit, mt.albedo, mt.transparency, mt.ior, beta, us, k)
    ELSE Opaque(st, hit, mt.albedo, mt.roughness, beta, us, k)

\* the iteration after a hit
PathHit(sc, st, us, max_depth, hit, mt, L1, r) ==
    IF r.stop
    THEN [st EXCEPT !.pc = "done", !.L = L1, !.queries = @ + 1, !.draws = @ + 1,
                    !.ev = [kind |-> "roulette_stop", hit_m |-> hit.best_m,
                            rr |-> TRUE, q |-> r.q, u |-> r.u,
                            beta_in |-> st.beta, beta_rr |-> st.beta, div |-> R1]]
    ELSE Let(Scatter(st, hit, mt, r.beta, us, r.used), LAMBDA b :
             [pc |-> LoopPc(st.depth + 1, max_depth),
              ray |-> b.ray, L |-> L1, beta |-> b.beta, depth |-> st.depth + 1,
              queries |-> st.queries + 1, draws |-> st.draws + b.used,
              ev |-> [kind |-> b.kind, hit_m |-> hit.best_m, rr |-> r.rr, q |-> r.q,
                      u |-> r.u, beta_in |-> st.beta, beta_rr |-> r.beta,
                      div |-> b.div]])

PathShadeLateEmission(sc, st, us, max_depth, hit) ==
    IF ~hit.any_hit
    THEN [st EXCEPT !.pc = "done", !.L = MissRadiance(st.L, st.beta, sc.background),
                    !.queries = @ + 1,
                    !.ev = [NoEvent EXCEPT !.kind = "miss", !.beta_in = st.beta,
                                           !.beta_rr = st.beta]]
    ELSE Let(MaterialTerms(sc.objects[hit.best_m].mat, hit.best_uv), LAMBDA mt :
         Let(RouletteTerms(st, us), LAMBDA r :
         Let(IF r.stop THEN st.L ELSE CAdd(st.L, hadamard(r.beta, mt.emission)), LAMBDA L1 :
             PathHit(sc, st, us, max_depth, hit, mt, L1, r))))
PathShade(sc, st, us, max_depth, hit) ==
    IF ~hit.any_hit
    THEN [st EXCEPT !.pc = "done", !.L = MissRadiance(st.L, st.beta, sc.background),
                    !.queries = @ + 1,
                    !.ev = [NoEvent EXCEPT !.kind = "miss", !.beta_in = st.beta,
                                           !.beta_rr = st.beta]]
    ELSE Let(MaterialTerms(sc.objects[hit.best_m].mat, hit.best_uv), LAMBDA mt :
         Let(CAdd(st.L, hadamard(st.beta, mt.emission)), LAMBDA L1 :
         Let(RouletteTerms(st, us), LAMBDA r :
             PathHit(sc, st, us, max_depth, hit, mt, L1, r))))

\* one iteration: the nearest-hit query, then shading
PathIter(sc, st, us, max_depth) ==
    Let(NearestHit(sc.objects, st.ray), LAMBDA hit : PathShade(sc, st, us, max_depth, hit))

(***************************************************************************)
(* Scene: ordered object list, background, camera.                         *)
(***************************************************************************)
\* Camera(cam_to_world, fov, aspect, near, far), looking down the lanes
Camera(near, far) == [near |-> near, far |-> far]

\* Scene(camera, background)
Scene(camera, background) == [objects |-> <<>>, background |-> background, camera |-> camera]

\* Scene::add_object
add_object(sc, obj) == [sc EXCEPT !.objects = Append(@, obj)]

\* Scene::set_background
set_background(sc, c) == [sc EXCEPT !.background = c]

RHalf == <<1, 2>>
Red == <<R1, R0, R0>>

(***************************************************************************)
(* Values of the variables a specification does not use.                   *)
(***************************************************************************)
IdleCfg == [renderer |-> "pt", hw |-> 1, width |-> 0, height |-> 0, spp |-> 1,
            max_depth |-> 0, seed |-> 0]
IdleScene == Scene(Camera(1, 50), CZero)
IdleOut == [w |-> 0, h |-> 0, data |-> <<>>]
IdleScan == [ray |-> MkRay(0, 0, 1, 1, 50), done |-> FALSE]
IdlePath == [PathStart(MkRay(0, 0, 1, 1, 50), 0) EXCEPT !.pc = "off"]
IdleUnit == [kind |-> "none"]
NoThrow == "none"

(***************************************************************************)
(* ScanSpec: scenes are built by add_object, then one ray is resolved by   *)
(* the nearest-hit scans of both renderers.                                *)
(***************************************************************************)
ScanPool ==
    { SceneObject(Surface(10, {0, 1, 2}, <<-1, 1>>), lambertian(Red)),
      SceneObject(Surface(10, {1, 2, 3}, <<1, 1>>), metal(CGrey(RHalf), R0)),
      SceneObject(Surface(20, {0, 3}, <<-1, 2>>), glass(COne, R0, R1)),
      SceneObject(Surface(5, {0, 1}, <<-1, 1>>), emissive(COne, <<2, 1>>)),
      SceneObject(Surface(15, {}, <<1, 1>>), DefaultMaterial),
      SceneObject(NoGeom, DefaultMaterial) }

ScanRays ==
    { MkRay(x, z, dz, rg[1], rg[2]) :
        x \in {1, 3}, z \in {0, 12}, dz \in {1, -1},
        rg \in {<<1, 50>>, <<1, 10>>, <<11, 50>>} }

InitScan ==
    /\ cfg = IdleCfg
    /\ scene = IdleScene
    /\ out = IdleOut
    /\ writers = <<>>
    /\ pc = "off"
    /\ threads = <<>>
    /\ spawn_t = 0
    /\ y0 = 0
    /\ join_i = 0
    /\ unit = IdleUnit
    /\ thrown = NoThrow
    /\ scan \in {[ray |-> r, done |-> FALSE] : r \in ScanRays}
    /\ path = IdlePath

ScanAddObject ==
    /\ ~scan.done
    /\ Len(scene.objects) < MaxObjects
    /\ \E obj \in ScanPool : scene' = add_object(scene, obj)
    /\ UNCHANGED <<cfg, out, writers, pc, threads, spawn_t, y0, join_i, scan, path, unit, thrown>>

ScanTrace ==
    /\ ~scan.done
    /\ scan' = [ray |-> scan.ray, done |-> TRUE,
                res |-> NearestHit(scene.objects, scan.ray),
                simple |-> SimpleNearestHit(scene.objects, scan.ray)]
    /\ UNCHANGED <<cfg, scene, out, writers, pc, threads, spawn_t, y0, join_i, path, unit, thrown>>

NextScan == ScanAddObject \/ ScanTrace

ScanSpec == InitScan /\ [][NextScan]_vars

\* indices of the objects that report a hit with t in [tmin, tmax]
Hitters(objs, ray) ==
    {i \in 1..Len(objs) :
        LET h == ObjIntersect(objs[i], ray)
        IN  h.hit /\ h.t >= ray.tmin /\ h.t <= ray.tmax}

HitTs(objs, ray) == {ObjIntersect(objs[i], ray).t : i \in Hitters(objs, ray)}

\* indices of the objects whose hit has the smallest t
Nearest(objs, ray) ==
    {i \in Hitters(objs, ray) : ObjIntersect(objs[i], ray).t = SetMin(HitTs(objs, ray))}

Perms(n) == {f \in [1..n -> 1..n] : \A i, j \in 1..n : f[i] = f[j] => i = j}
Permute(objs, f) == [i \in 1..Len(objs) |-> objs[f[i]]]

\* C6: the scan reports a hit iff some object reports a hit in [tmin, tmax];
\* the t it keeps is the minimum over all objects' hits; both are the same
\* for every insertion order of the same objects.  Both renderers.
C6_NearestHitIsMin ==
    scan.done =>
        LET objs == scene.objects
            ray == scan.ray
            ts == HitTs(objs, ray)
        IN  /\ scan.res.any_hit <=> ts # {}
            /\ scan.res.any_hit => scan.res.best_t = SetMin(ts)
            /\ scan.simple.any_hit <=> ts # {}
            /\ scan.simple.any_hit => scan.simple.best_t = SetMin(ts)
            /\ \A f \in Perms(Len(objs)) :
                  LET r == NearestHit(Permute(objs, f), ray)
                  IN  /\ r.any_hit = scan.res.any_hit
                      /\ r.any_hit => r.best_t = scan.res.best_t

\* C6 witness: a scan over at least two hit objects with different t, the
\* nearest of them not the last one scanned
C6_Witness ==
    /\ scan.done
    /\ Cardinality(HitTs(scene.objects, scan.ray)) >= 2
    /\ Len(scene.objects) \notin Nearest(scene.objects, scan.ray)
    /\ scan.res.any_hit

\* C7 as stated: on a tie at the smallest t the first inserted object's hit
\* is selected
C7_FirstInsertedWins ==
    (scan.done /\ scan.res.any_hit) =>
        /\ scan.res.best_m = SetMin(Nearest(scene.objects, scan.ray))
        /\ scan.simple.best_m = SetMin(Nearest(scene.objects, scan.ray))

\* C7 amended: on a tie at the smallest t the hit (normal, uv, material) of
\* the object inserted last among the tied ones is selected
C7_LastInsertedWins ==
    (scan.done /\ scan.res.any_hit) =>
        LET w == SetMax(Nearest(scene.objects, scan.ray))
            h == ObjIntersect(scene.objects[w], scan.ray)
        IN  /\ scan.res.best_m = w
            /\ scan.res.best_n = h.normal
            /\ scan.res.best_uv = h.uv
            /\ scan.simple.best_m = w
            /\ scan.simple.best_n = h.normal

\* C7 witness: two objects with different normals and materials tie at the
\* smallest t
C7_Witness ==
    /\ scan.done
    /\ scan.res.any_hit
    /\ \E i, j \in Nearest(scene.objects, scan.ray) :
          /\ i < j
          /\ scene.objects[i].mat # scene.objects[j].mat
          /\ scene.objects[i].geom.nz # scene.objects[j].geom.nz

(***************************************************************************)
(* RendererSimpleRT::trace_ray.  The light direction is normalized(1,1,1); *)
(* its component along the lane axis, 1/sqrt(3), is taken as 577/1000.     *)
(***************************************************************************)
InvSqrt3 == <<577, 1000>>

SimpleTraceRay(sc, ray) ==
    Let(SimpleNearestHit(sc.objects, ray), LAMBDA hit :
        IF ~hit.any_hit THEN sc.background
        ELSE LET m == sc.objects[hit.best_m].mat
                 ndotl == RMax(R0, RMul(hit.best_n, InvSqrt3))
                 emission == CScale(MatRadiance(m, 0), MatEmission(m, 0))
                 diffuse == CScale(MatAlbedo(m, 0), ndotl)
             IN  CAdd(emission, diffuse))

(***************************************************************************)
(* Scenes used by the integrator and the renderers.                        *)
(***************************************************************************)
AllLanes == {0, 1, 2, 3}
Facing == <<-1, 1>>
Backing == <<1, 1>>
Tilted == <<-1, 2>>

mMirrorHalf == metal(CGrey(RHalf), R0)
mWhite == lambertian(COne)
mRough == from_params(<<R1, RHalf, R0>>, RHalf, R0, CZero, R0)
mDiffuse == [DefaultMaterial EXCEPT !.albedo = Uniform(CGrey(RHalf)), !.roughness = Uniform(R1)]
mLight == emissive(Red, <<2, 1>>)
mGlass == glass(COne, R0, R1)
mGlassHalf == glass(CGrey(RHalf), R0, RHalf)
mChecker == [lambertian(COne) EXCEPT !.albedo = <<COne, CGrey(RHalf)>>]

BuildScene(bg, objs) == [Scene(Camera(1, 50), bg) EXCEPT !.objects = objs]

SceneEmpty == BuildScene(<<RHalf, RHalf, R1>>, <<>>)

SceneCorridor ==
    BuildScene(CZero,
        << SceneObject(Surface(10, AllLanes, Facing), mWhite),
           SceneObject(Surface(-10, AllLanes, Backing), mMirrorHalf) >>)

SceneRough ==
    BuildScene(CGrey(RHalf),
        << SceneObject(Surface(10, {0}, Facing), mLight),
           SceneObject(Surface(20, {0, 1}, Facing), mRough),
           SceneObject(Surface(-10, {0, 1}, Backing), mRough),
           SceneObject(Surface(-20, {0}, Backing), mDiffuse) >>)

SceneGlass ==
    BuildScene(<<R0, RHalf, R1>>,
        << SceneObject(Surface(10, AllLanes, Facing), mGlass),
           SceneObject(Surface(20, {0, 1}, Tilted), mGlassHalf),
           SceneObject(Surface(30, AllLanes, Facing), mChecker),
           SceneObject(Surface(-10, {1, 2}, Backing), mMirrorHalf) >>)

PathScenes == {SceneEmpty, SceneCorridor, SceneRough, SceneGlass}

\* the primary rays: from the camera at depth 0 down a lane, range [near, far]
PrimaryRay(sc, x) == MkRay(x, 0, 1, sc.camera.near, sc.camera.far)

(***************************************************************************)
(* PathSpec: one call of trace_ray, the integrator's loop taken one        *)
(* iteration per step with every value of the uniform draws.               *)
(***************************************************************************)
InitPath ==
    /\ cfg \in {[IdleCfg EXCEPT !.renderer = r, !.max_depth = md] :
                    r \in {"pt", "simple"}, md \in 0..MaxDepth}
    /\ scene \in PathScenes
    /\ out = IdleOut
    /\ writers = <<>>
    /\ pc = "off"
    /\ threads = <<>>
    /\ spawn_t = 0
    /\ y0 = 0
    /\ join_i = 0
    /\ unit = IdleUnit
    /\ thrown = NoThrow
    /\ scan \in {[ray |-> PrimaryRay(scene, x), done |-> FALSE] : x \in {0, 1, 3}}
    /\ path = [IdlePath EXCEPT !.pc = "call"]

\* RendererPathTracer::trace_ray up to the first loop test of path_trace_
PathEnter ==
    /\ path.pc = "call"
    /\ cfg.renderer = "pt"
    /\ path' = PathStart(scan.ray, cfg.max_depth)
    /\ UNCHANGED <<cfg, scene, out, writers, pc, threads, spawn_t, y0, join_i, scan, unit, thrown>>

\* the number of uniform draws an iteration can consume at most: one for
\* the roulette, one for the Fresnel choice or three for specular/diffuse
MayDraw(sc, st) ==
    LET hit == NearestHit(sc.objects, st.ray)
    IN  IF ~hit.any_hit THEN 0
        ELSE (IF RouletteDue(st.depth) THEN 1 ELSE 0)
             + (IF RLt(R0, MatTransparency(sc.objects[hit.best_m].mat, hit.best_uv))
                THEN 1 ELSE 3)

\* the draw sequences that differ in their first n draws only
DrawSeqs[n \in 0..4] == {[i \in 1..4 |-> IF i <= n THEN f[i] ELSE 0] : f \in [1..n -> ULevelSet]}

\* one iteration of the loop of path_trace_
PathLoop ==
    /\ path.pc = "loop"
    /\ \E us \in DrawSeqs[MayDraw(scene, path)] :
          path' = PathIter(scene, path, us, cfg.max_depth)
    /\ UNCHANGED <<cfg, scene, out, writers, pc, threads, spawn_t, y0, join_i, scan, unit, thrown>>

\* RendererSimpleRT::trace_ray
SimpleTrace ==
    /\ path.pc = "call"
    /\ cfg.renderer = "simple"
    /\ path' = [PathStart(scan.ray, 0) EXCEPT !.L = SimpleTraceRay(scene, scan.ray),
                                              !.queries = 1]
    /\ UNCHANGED <<cfg, scene, out, writers, pc, threads, spawn_t, y0, join_i, scan, unit, thrown>>

NextPath == PathEnter \/ PathLoop \/ SimpleTrace

PathSpec == InitPath /\ [][NextPath]_vars

FairPathSpec == PathSpec /\ WF_vars(NextPath)

\* the primary ray of the call hits no scene object
PrimaryMisses == Hitters(scene.objects, scan.ray) = {}

Returned == path.pc = "done"

\* C8 as stated: for every renderer configuration a ray that hits no object
\* returns exactly the background, after one nearest-hit query
C8_MissReturnsBackground ==
    (Returned /\ PrimaryMisses) => (path.L = scene.background /\ path.queries = 1)

\* C8 amended: the same for RendererSimpleRT, and for RendererPathTracer
\* when max_depth >= 1; with max_depth = 0 the path tracer makes no query
\* and returns black
C8_MissReturnsBackgroundIfDepth ==
    (Returned /\ PrimaryMisses) =>
        IF cfg.renderer = "pt" /\ cfg.max_depth = 0
        THEN path.L = CZero /\ path.queries = 0
        ELSE path.L = scene.background /\ path.queries = 1

\* C8 witness: a returned trace of a ray that hit nothing, in a scene with
\* objects and a background that is not black, by the path tracer
C8_Witness ==
    /\ Returned
    /\ PrimaryMisses
    /\ cfg.renderer = "pt"
    /\ cfg.max_depth >= 1
    /\ scene.objects # <<>>
    /\ scene.background # CZero
    /\ path.ev.kind = "miss"

\* C9: path_trace_ terminates, makes at most max_depth nearest-hit queries,
\* and ends at the first miss, at a roulette termination or when depth
\* reaches max_depth, whatever branch each bounce takes
C9_Terminates ==
    /\ [](cfg.renderer = "pt" => path.queries <= cfg.max_depth)
    /\ []((cfg.renderer = "pt" /\ Returned) =>
            \/ path.ev.kind \in {"miss", "roulette_stop"}
            \/ path.depth = cfg.max_depth)
    /\ [](path.pc = "loop" =>
            /\ path.depth < cfg.max_depth
            /\ path.queries = path.depth
            /\ path.ev.kind \notin {"miss", "roulette_stop"})
    /\ <>Returned

\* C9 witness: a path that ran out of depth after a total internal
\* reflection, having taken max_depth >= 4 queries
C9_Witness ==
    /\ Returned
    /\ cfg.renderer = "pt"
    /\ cfg.max_depth >= 4
    /\ path.queries = cfg.max_depth
    /\ path.ev.kind = "tir"

\* C10: at a roulette step q = 1 - clamp(max(beta), 0, 1); the path stops
\* exactly when u < q and otherwise continues with beta / (1 - q); the
\* survival probability times the surviving throughput is the throughput on
\* arrival (which is zero when survival is impossible)
C10_RouletteUnbiased ==
    path.ev.rr =>
        LET b == path.ev.beta_in
            q == RSub(R1, RClamp(CMax(b), R0, R1))
            survive == RSub(R1, q)
        IN  /\ path.ev.q = q
            /\ (path.ev.kind = "roulette_stop") <=> RLt(path.ev.u, q)
            /\ path.ev.kind = "roulette_stop" => path.ev.beta_rr = b
            /\ path.ev.kind # "roulette_stop" =>
                  /\ survive # R0
                  /\ path.ev.beta_rr = CDivS(b, survive)
                  /\ CScale(path.ev.beta_rr, survive) = b
            /\ survive = R0 => b = CZero

\* C10 witness: a path survived a roulette step with 0 < q < 1
C10_Witness ==
    /\ path.ev.rr
    /\ path.ev.kind # "roulette_stop"
    /\ RLt(R0, path.ev.q)
    /\ RLt(path.ev.q, R1)
    /\ path.ev.beta_rr # path.ev.beta_in

\* the uniform draws the sampling of the next direction consumes
ScatterDraws(kind) ==
    CASE kind = "tir" -> 0
      [] kind \in {"reflect", "refract", "specular"} -> 1
      [] kind = "diffuse" -> 3
      [] OTHER -> 0

\* an iteration of path_trace_ that found a hit
HitIteration == path.pc = "loop" /\ path' # path /\ path'.ev.kind # "miss"

\* C11: at the hits of loop depth 0, 1, 2 no roulette number is drawn, the
\* path is not ended by roulette and the throughput is not rescaled; at
\* every hit of depth 3 or more the roulette is played (one draw, then stop
\* or go on to the sampling of the next direction)
C11_RouletteAfterThreeBounces ==
    [][HitIteration =>
        LET d == path.depth
            ev == path'.ev
            n == path'.draws - path.draws
        IN  /\ ev.rr <=> d >= 3
            /\ d < 3 => /\ ev.kind # "roulette_stop"
                        /\ ev.beta_rr = path.beta
                        /\ n = ScatterDraws(ev.kind)
            /\ d >= 3 => n = 1 + ScatterDraws(ev.kind)]_vars

\* C11 witness: a path whose hit at depth 3 played the roulette, survived
\* with a rescaled throughput and went on to depth 4
C11_Witness ==
    /\ path.depth = 4
    /\ path.pc \in {"loop", "done"}
    /\ path.ev.rr
    /\ path.ev.kind \in {"specular", "diffuse", "reflect", "refract", "tir"}
    /\ path.draws >= 4

(***************************************************************************)
(* DarkPathSpec: path_trace_ in scenes with dark mirrors, the uniform      *)
(* draws taken from the two ends of [0, 1).                                *)
(***************************************************************************)
mDark(a) == metal(CGrey(a), R0)

DarkCorridor(a1, a2) ==
    BuildScene(CZero,
        << SceneObject(Surface(10, AllLanes, Facing), mDark(a1)),
           SceneObject(Surface(-10, AllLanes, Backing), mDark(a2)) >>)

\* one surface that is almost a mirror: roughness 1/2000
SceneSatin ==
    BuildScene(CGrey(RHalf),
        << SceneObject(Surface(10, {0, 1}, Facing),
                       from_params(CGrey(RHalf), Rat(1, 2000), R0, CZero, R0)) >>)

DarkScenes ==
    {DarkCorridor(a[1], a[2]) :
        a \in {<<Rat(1, 10), Rat(1, 20)>>, <<RHalf, RHalf>>, <<R1, Rat(1, 10)>>}}
    \cup {SceneGlass, SceneRough, SceneSatin}

InitDark ==
    /\ cfg \in {[IdleCfg EXCEPT !.max_depth = md] : md \in 0..MaxDepth}
    /\ scene \in DarkScenes
    /\ out = IdleOut
    /\ writers = <<>>
    /\ pc = "off"
    /\ threads = <<>>
    /\ spawn_t = 0
    /\ y0 = 0
    /\ join_i = 0
    /\ unit = IdleUnit
    /\ thrown = NoThrow
    /\ scan \in {[ray |-> PrimaryRay(scene, x), done |-> FALSE] : x \in {0, 1, 3}}
    /\ path = [IdlePath EXCEPT !.pc = "call"]

\* the draw sequences over the smallest and the largest draw
EndDrawSeqs[n \in 0..4] ==
    {[i \in 1..4 |-> IF i <= n THEN f[i] ELSE 0] : f \in [1..n -> {0, ULevels}]}

\* one iteration of the loop of path_trace_
PathLoopEnds ==
    /\ path.pc = "loop"
    /\ \E us \in EndDrawSeqs[MayDraw(scene, path)] :
          path' = PathIter(scene, path, us, cfg.max_depth)
    /\ UNCHANGED <<cfg, scene, out, writers, pc, threads, spawn_t, y0, join_i, scan, unit, thrown>>

NextDark == PathEnter \/ PathLoopEnds

DarkPathSpec == InitDark /\ [][NextDark]_vars

\* the iteration recorded in path.ev went on to sample a next direction
Scattered == path.ev.kind \in {"tir", "reflect", "refract", "specular", "diffuse"}

\* C12 as stated: every divisor of the throughput in a bounce, the roulette
\* survival 1 - q included, is at least 1e-3, and neither division scales
\* a throughput component by more than 1000
C12_AllDivisorsFloored ==
    Scattered =>
        LET ev == path.ev
        IN  /\ RLe(ProbFloor, ev.div)
            /\ ev.rr => RLe(ProbFloor, RSub(R1, ev.q))
            /\ \A i \in 1..3 : RLe(ev.beta_rr[i], RMul(RInt(1000), ev.beta_in[i]))

\* C12, the part that holds: the divisor of the sampled branch (Fresnel
\* reflection, refraction, specular, diffuse) is at least 1e-3
C12_BranchDivisorsFloored ==
    Scattered => RLe(ProbFloor, path.ev.div)

\* C12 witness: a bounce whose branch divisor is the floor itself
C12_Witness ==
    /\ Scattered
    /\ path.ev.div = ProbFloor

(***************************************************************************)
(* 64-bit words as four 16-bit limbs, lowest first.                        *)
(***************************************************************************)
Limb == 65536
Word(n) == <<n % Limb, n \div Limb, 0, 0>>

BitXor[a \in Nat, b \in Nat] ==
    IF a = 0 THEN b
    ELSE IF b = 0 THEN a
    ELSE (((a % 2) + (b % 2)) % 2) + 2 * BitXor[a \div 2, b \div 2]

Words == [1..4 -> 0..(Limb - 1)]

WXor[a \in Words, b \in Words] == [i \in 1..4 |-> BitXor[a[i], b[i]]]

\* a + b modulo 2^64
WAdd[a \in Words, b \in Words] ==
    LET c1 == (a[1] + b[1]) \div Limb
        c2 == (a[2] + b[2] + c1) \div Limb
        c3 == (a[3] + b[3] + c2) \div Limb
    IN  <<(a[1] + b[1]) % Limb, (a[2] + b[2] + c1) % Limb,
          (a[3] + b[3] + c2) % Limb, (a[4] + b[4] + c3) % Limb>>

\* a << 6 and a >> 2 on 64 bits
WShl6[a \in Words] ==
    [i \in 1..4 |-> ((a[i] * 64) % Limb) + (IF i = 1 THEN 0 ELSE a[i - 1] \div 1024)]
WShr2[a \in Words] ==
    [i \in 1..4 |-> (a[i] \div 4) + (IF i = 4 THEN 0 ELSE (a[i + 1] % 4) * 16384)]

\* 0x9e3779b97f4a7c15
Golden == <<31765, 32586, 31161, 40503>>

\* detail_pt::mix_seed
mix_seed(a, b) == WXor[a, WAdd[WAdd[WAdd[b, Golden], WShl6[a]], WShr2[a]]]

\* (y0 << 32) ^ y1 ^ t
RangeKeyNoRowStart(ya, yb, t) == <<BitXor[yb, t], 0, 0, 0>>
RangeKey(ya, yb, t) == <<BitXor[yb, t], 0, ya, 0>>

\* the seed of worker t over rows [ya, yb)
ThreadSeed(seed, ya, yb, t) == mix_seed(seed, RangeKey(ya, yb, t))

(***************************************************************************)
(* std::mt19937_64 with uniform_real_distribution(0, 1): the stream of a   *)
(* generator is a function of its seed; draw n of it is a level.           *)
(***************************************************************************)
DrawLevel[seed \in Words, n \in Nat] ==
    (seed[1] + seed[2] + seed[3] + seed[4] + ((n * (n + 1)) \div 2)) % ULevels

\* the next four draws of the generator
NextDraws(seed, n) == [i \in 1..4 |-> DrawLevel[seed, n + i - 1]]

(***************************************************************************)
(* Camera::generate_ray: the ray through (px, py) leaves the camera down   *)
(* the lane its direction falls in; a pixel column spans two lanes.        *)
(***************************************************************************)
QFloor[a \in Q] == a[1] \div a[2]

generate_ray(cam, px, py, width, height) ==
    MkRay(QFloor[QMul[px, RInt(2)]], 0, 1, cam.near, cam.far)

(***************************************************************************)
(* The pixel loops of the workers.                                         *)
(***************************************************************************)
\* path_trace_(scene, ray, rng) run to its return: the radiance and the
\* position of the generator afterwards
RECURSIVE PathRun(_, _, _, _, _)
PathRun(sc, st, seed, n, max_depth) ==
    IF st.pc # "loop" THEN [L |-> st.L, n |-> n]
    ELSE Let(NextDraws(seed, n), LAMBDA us :
         Let(PathIter(sc, st, us, max_depth), LAMBDA s1 :
         Let(n + (s1.draws - st.draws), LAMBDA n1 :
             PathRun(sc, s1, seed, n1, max_depth))))

\* one sample of a pixel: two jitter draws, generate_ray, path_trace_
SampleOnce(sc, c, seed, n, x, y) ==
    LET fx == RAdd(RInt(x), Uni(DrawLevel[seed, n]))
        fy == RAdd(RInt(y), Uni(DrawLevel[seed, n + 1]))
        ray == generate_ray(sc.camera, fx, fy, c.width, c.height)
    IN  Let(PathStart(ray, c.max_depth), LAMBDA st :
            PathRun(sc, st, seed, n + 2, c.max_depth))

\* the loop over the samples of a pixel
RECURSIVE SampleLoop(_, _, _, _, _, _, _)
SampleLoop(sc, c, seed, acc, sa, x, y) ==
    IF sa = c.spp THEN acc
    ELSE Let(SampleOnce(sc, c, seed, acc.n, x, y), LAMBDA r :
         Let([sum |-> CAdd(acc.sum, r.L), n |-> r.n], LAMBDA a1 :
             SampleLoop(sc, c, seed, a1, sa + 1, x, y)))

\* the pixel of RendererPathTracer's worker: sum / spp
PixelPT(sc, c, seed, n, x, y) ==
    Let(SampleLoop(sc, c, seed, [sum |-> CZero, n |-> n], 0, x, y), LAMBDA a :
        [color |-> CDivS(a.sum, RInt(c.spp)), n |-> a.n])

\* the pixel of RendererSimpleRT's worker
PixelSimple(sc, c, x, y) ==
    SimpleTraceRay(sc, generate_ray(sc.camera, RInt(x), RInt(y), c.width, c.height))

Pixel(sc, c, seed, n, x, y) ==
    IF c.renderer = "pt" THEN PixelPT(sc, c, seed, n, x, y)
    ELSE [color |-> PixelSimple(sc, c, x, y), n |-> n]

(***************************************************************************)
(* Image<T,3>.                                                             *)
(***************************************************************************)
\* Image::index; cells are numbered from 0
IndexNoStride(w, x, y) == y + x
Index(w, x, y) == y * w + x

\* Image::resize
resizeTransposed(w, h, fill) == [w |-> h, h |-> w, data |-> [k \in 1..(w * h) |-> fill]]
resize(w, h, fill) == [w |-> w, h |-> h, data |-> [k \in 1..(w * h) |-> fill]]

\* out(x, y) = color
SetPixel(img, x, y, color) == [img EXCEPT !.data[Index(img.w, x, y) + 1] = color]

(***************************************************************************)
(* render: the partition of the rows.                                      *)
(***************************************************************************)
Min(a, b) == IF a < b THEN a ELSE b

\* hardware_concurrency() ? hardware_concurrency() : 4
HwOf(c) == IF c.hw # 0 THEN c.hw ELSE DefaultHw

ThreadCountNoCap(c) == HwOf(c)
ThreadCount(c) == Min(HwOf(c), c.height)

RowsPerThread(c) == c.height \div ThreadCount(c)
Remainder(c) == c.height % ThreadCount(c)

\* count = rows_per_thread + (t < remainder ? 1 : 0)
RowCountFloor(c, t) == RowsPerThread(c)
RowCount(c, t) == RowsPerThread(c) + (IF t < Remainder(c) THEN 1 ELSE 0)

\* the generator a worker draws from: its own local one
RngOwnerShared(i) == 1
RngOwner(i) == i

\* th.join() returns when the thread has finished
JoinableAlways(th) == TRUE
Joinable(th) == th.y = th.y_end

\* the scene after a trace: every member a trace calls on the scene, its
\* objects, their boxes, geometry and materials and the camera is const
SceneAfterTraceDropsBoxes(sc) ==
    [sc EXCEPT !.objects = [k \in DOMAIN sc.objects |-> [sc.objects[k] EXCEPT !.aabb = EmptyBox]]]
SceneAfterTrace(sc) == sc

(***************************************************************************)
(* Spec: a client owns a scene and an image, may change the scene between  *)
(* calls, and calls render; render spawns the workers, which run           *)
(* concurrently with it and with each other one pixel per step, and joins  *)
(* them.  writers[k] is the set of workers that have written cell k - 1.   *)
(***************************************************************************)
\* RendererPathTracer's default seed
DefaultSeed == Word(1337)

Backgrounds == {CGrey(RHalf), <<R0, RHalf, R1>>}

Init ==
    /\ cfg \in {[renderer |-> r, hw |-> hw, width |-> w, height |-> h,
                 spp |-> IF r = "pt" THEN MaxSpp ELSE 1,
                 max_depth |-> IF r = "pt" THEN 1 ELSE 0,
                 seed |-> DefaultSeed] :
                    r \in {"pt", "simple"}, hw \in 0..MaxHw,
                    w \in 0..MaxWidth, h \in 0..MaxHeight}
    /\ scene = SceneRough
    /\ out = IdleOut
    /\ writers = <<>>
    /\ pc = "idle"
    /\ threads = <<>>
    /\ spawn_t = 0
    /\ y0 = 0
    /\ join_i = 0
    /\ unit = IdleUnit
    /\ thrown = NoThrow
    /\ scan = IdleScan
    /\ path = IdlePath

\* the client changes the scene; it cannot while it is inside render
SetBackground ==
    /\ pc = "idle"
    /\ \E b \in Backgrounds :
          /\ b # scene.background
          /\ scene' = set_background(scene, b)
    /\ UNCHANGED <<cfg, out, writers, pc, threads, spawn_t, y0, join_i, scan, path, unit, thrown>>

\* render up to the spawn loop: resize, the early return, the partition
RenderBeginNoEarlyReturn ==
    /\ pc = "idle"
    /\ out' = IF out.w # cfg.width \/ out.h # cfg.height
              THEN resize(cfg.width, cfg.height, CZero) ELSE out
    /\ writers' = [k \in 1..(cfg.width * cfg.height) |-> {}]
    /\ pc' = "spawn"
    /\ threads' = <<>>
    /\ spawn_t' = 0
    /\ y0' = 0
    /\ join_i' = 1
    /\ UNCHANGED <<cfg, scene, scan, path, unit, thrown>>
RenderBegin ==
    /\ pc = "idle"
    /\ out' = IF out.w # cfg.width \/ out.h # cfg.height
              THEN resize(cfg.width, cfg.height, CZero) ELSE out
    /\ writers' = [k \in 1..(cfg.width * cfg.height) |-> {}]
    /\ pc' = IF cfg.width = 0 \/ cfg.height = 0 THEN "done" ELSE "spawn"
    /\ threads' = <<>>
    /\ spawn_t' = 0
    /\ y0' = 0
    /\ join_i' = 1
    /\ UNCHANGED <<cfg, scene, scan, path, unit, thrown>>

\* one iteration of the spawn loop: threads.emplace_back(worker, y0, y1, tseed)
Spawn ==
    /\ pc = "spawn"
    /\ spawn_t < ThreadCount(cfg)
    /\ LET y1 == y0 + RowCount(cfg, spawn_t)
       IN  /\ threads' = Append(threads,
                  [y_begin |-> y0, y_end |-> y1,
                   seed |-> ThreadSeed(cfg.seed, y0, y1, spawn_t),
                   n |-> 0, y |-> y0, x |-> 0, joined |-> FALSE])
           /\ y0' = y1
    /\ spawn_t' = spawn_t + 1
    /\ pc' = IF spawn_t + 1 < ThreadCount(cfg) THEN "spawn" ELSE "join"
    /\ UNCHANGED <<cfg, scene, out, writers, join_i, scan, path, unit, thrown>>

\* one pixel of worker i: the samples, then out(x, y) = ...
Worker(i) ==
    /\ i \in 1..Len(threads)
    /\ threads[i].y < threads[i].y_end
    /\ LET th == threads[i]
           g == threads[RngOwner(i)]
           last == th.x + 1 = cfg.width
       IN  \E r \in {Pixel(scene, cfg, g.seed, g.n, th.x, th.y)} :
              /\ out' = SetPixel(out, th.x, th.y, r.color)
              /\ writers' = [writers EXCEPT ![Index(out.w, th.x, th.y) + 1] = @ \union {i}]
              /\ threads' = [threads EXCEPT ![RngOwner(i)].n = r.n,
                                            ![i].x = IF last THEN 0 ELSE th.x + 1,
                                            ![i].y = IF last THEN th.y + 1 ELSE th.y]
    /\ scene' = SceneAfterTrace(scene)
    /\ UNCHANGED <<cfg, pc, spawn_t, y0, join_i, scan, path, unit, thrown>>

\* one iteration of the join loop; render returns after the last one
Join ==
    /\ pc = "join"
    /\ join_i <= Len(threads)
    /\ Joinable(threads[join_i])
    /\ threads' = [threads EXCEPT ![join_i].joined = TRUE]
    /\ join_i' = join_i + 1
    /\ pc' = IF join_i + 1 <= Len(threads) THEN "join" ELSE "done"
    /\ UNCHANGED <<cfg, scene, out, writers, spawn_t, y0, scan, path, unit, thrown>>

\* the most workers a render can have
MaxThreads == IF MaxHw > DefaultHw THEN MaxHw ELSE DefaultHw

Next ==
    \/ SetBackground
    \/ RenderBegin
    \/ Spawn
    \/ Join
    \/ \E i \in 1..MaxThreads : Worker(i)

Spec == Init /\ [][Next]_vars

\* a step of render or of one of its workers
RenderStep == Spawn \/ Join \/ \E i \in 1..MaxThreads : Worker(i)

\* the scheduler does not stop while some thread of the render can run
FairSpec == Spec /\ WF_vars(RenderStep)

(***************************************************************************)
(* Claims about render.                                                    *)
(***************************************************************************)
Rendering == pc \in {"spawn", "join"}
RenderDone == pc = "done" /\ cfg.width > 0 /\ cfg.height > 0
Cells == 1..Len(writers)

\* the row of cell k - 1 and the workers whose row range contains it
RowOf(k) == (k - 1) \div cfg.width
OwnersOf(k) ==
    {i \in 1..Len(threads) : threads[i].y_begin <= RowOf(k) /\ RowOf(k) < threads[i].y_end}

\* C1: in every state of a render each pixel has been written by at most
\* one worker, and only by the worker whose row range contains its row;
\* when render has returned each pixel has been written by exactly one
C1_PixelsWrittenByOneWorker ==
    /\ \A k \in Cells :
          /\ writers[k] \subseteq OwnersOf(k)
          /\ Cardinality(writers[k]) <= 1
    /\ RenderDone =>
          /\ Len(writers) = cfg.width * cfg.height
          /\ \A k \in Cells : Cardinality(writers[k]) = 1

\* C1 witness: a finished render of three workers over two columns
C1_Witness ==
    /\ RenderDone
    /\ Len(threads) = 3
    /\ cfg.width = 2
    /\ \A k \in Cells : writers[k] = {RowOf(k) + 1}

\* the sizes of the ranges handed out so far
RangeSize(i) == threads[i].y_end - threads[i].y_begin

\* C2: the ranges handed out are contiguous from row 0 in increasing order
\* (hence pairwise disjoint), each holds at least one row, the sizes never
\* increase with the worker index and differ by at most one; once the spawn
\* loop is over there are min(hw or 4, height) of them and they end at height
C2_RowPartition ==
    LET n == Len(threads)
        hw == IF cfg.hw = 0 THEN 4 ELSE cfg.hw
    IN  /\ n > 0 => threads[1].y_begin = 0
        /\ \A i \in 1..n : threads[i].y_begin < threads[i].y_end
        /\ \A i \in 1..(n - 1) : threads[i + 1].y_begin = threads[i].y_end
        /\ \A i, j \in 1..n :
              /\ i < j => threads[i].y_end <= threads[j].y_begin
              /\ i < j => RangeSize(i) >= RangeSize(j) /\ RangeSize(i) - RangeSize(j) <= 1
        /\ (pc \in {"join", "done"} /\ cfg.width > 0 /\ cfg.height > 0) =>
              /\ n = (IF hw < cfg.height THEN hw ELSE cfg.height)
              /\ threads[n].y_end = cfg.height
              /\ UNION {threads[i].y_begin..(threads[i].y_end - 1) : i \in 1..n}
                   = 0..(cfg.height - 1)

\* C2 witness: all ranges handed out, two workers, the first with one row
\* more than the second
C2_Witness ==
    /\ pc = "join"
    /\ Len(threads) = 2
    /\ RangeSize(1) = RangeSize(2) + 1
    /\ cfg.hw < cfg.height

\* the cells k..(k_end - 1) of one worker computed in order from a generator
\* of its own at position n
RECURSIVE SequentialCells(_, _, _, _, _, _, _)
SequentialCells(sc, c, seed, n, k, k_end, data) ==
    IF k >= k_end THEN data
    ELSE Let(PixelPT(sc, c, seed, n, k % c.width, k \div c.width), LAMBDA r :
         Let([data EXCEPT ![k + 1] = r.color], LAMBDA d1 :
             SequentialCells(sc, c, seed, r.n, k + 1, k_end, d1)))

\* the image of a render whose workers run one after the other, worker t on
\* rows [ya, ya + count) with a generator seeded from seed, ya, yb and t
RECURSIVE SequentialImage(_, _, _, _, _)
SequentialImage(sc, c, t, ya, data) ==
    IF ya >= c.height THEN data
    ELSE LET hw == IF c.hw = 0 THEN 4 ELSE c.hw
             tc == IF hw < c.height THEN hw ELSE c.height
             yb == ya + (c.height \div tc) + (IF t < c.height % tc THEN 1 ELSE 0)
         IN  Let(SequentialCells(sc, c, mix_seed(c.seed, <<BitXor[yb, t], 0, ya, 0>>), 0,
                                 ya * c.width, yb * c.width, data), LAMBDA d1 :
                 SequentialImage(sc, c, t + 1, yb, d1))

\* C3: under every interleaving the image render returns is the image of
\* the scene, seed, samples per pixel, depth, size and thread count alone
\* (the one the workers produce run one after the other); every worker's
\* generator is seeded from the seed, its row range and its index, and no
\* worker's generator has advanced before that worker's first pixel
C3_Deterministic ==
    cfg.renderer = "pt" =>
        /\ \A i \in 1..Len(threads) :
              /\ threads[i].seed = mix_seed(cfg.seed,
                     <<BitXor[threads[i].y_end, i - 1], 0, threads[i].y_begin, 0>>)
              /\ (threads[i].y = threads[i].y_begin /\ threads[i].x = 0) => threads[i].n = 0
        /\ RenderDone =>
              out.data = SequentialImage(scene, cfg, 0, 0,
                                         [k \in 1..(cfg.width * cfg.height) |-> CZero])

\* C3 witness: a finished render of the path tracer by at least two workers
\* that all drew from their generators, with pixels of different colours
C3_Witness ==
    /\ RenderDone
    /\ cfg.renderer = "pt"
    /\ Len(threads) >= 2
    /\ \A i \in 1..Len(threads) : threads[i].n > 0
    /\ \E i, j \in 1..Len(threads) : threads[i].seed # threads[j].seed
    /\ \E k, l \in 1..Len(out.data) : out.data[k] # out.data[l]

\* C4: render has returned only if every worker has finished its rows and
\* has been joined and every pixel has been written, and a render that has
\* started returns
C4_RunsToCompletion ==
    /\ [](RenderDone =>
            /\ Len(threads) > 0
            /\ \A i \in 1..Len(threads) :
                  threads[i].y = threads[i].y_end /\ threads[i].joined
            /\ \A k \in Cells : writers[k] # {})
    /\ [](pc = "done" => out.w = cfg.width /\ out.h = cfg.height
                         /\ Len(out.data) = cfg.width * cfg.height)
    /\ (Rendering ~> pc = "done")

\* C4 witness: render returned after joining three workers
C4_Witness ==
    /\ RenderDone
    /\ Len(threads) = 3
    /\ \A i \in 1..3 : threads[i].joined
    /\ cfg.height > 2

\* C5: no step taken while render runs changes the scene, so the scene
\* render returns with is the one it was called with
C5_SceneReadOnly == [][(pc # "idle") => (scene' = scene)]_vars

\* C5 witness: render returned, its workers having traced a scene with
\* objects that the client had changed before the call
C5_Witness ==
    /\ RenderDone
    /\ scene.objects # <<>>
    /\ scene # SceneRough
    /\ \A k \in Cells : writers[k] # {}

(***************************************************************************)
(* Matrix<T, R, C>: a matrix is the sequence of its rows.  Indices are     *)
(* 1-based here and 0-based in the source.                                 *)
(***************************************************************************)
\* the variables of the renderers, which the value-type specifications
\* leave alone
renderVars == <<cfg, scene, out, writers, pc, threads, spawn_t, y0, join_i, scan, path>>

InitRenderIdle ==
    /\ cfg = IdleCfg
    /\ scene = IdleScene
    /\ out = IdleOut
    /\ writers = <<>>
    /\ pc = "off"
    /\ threads = <<>>
    /\ spawn_t = 0
    /\ y0 = 0
    /\ join_i = 0
    /\ scan = IdleScan
    /\ path = IdlePath

\* a sequence with its n elements evaluated
Tup(f, n) == SubSeq(f, 1, n)

MkMat(rows, cols, F(_, _)) ==
    Tup([r \in 1..rows |-> Tup([c \in 1..cols |-> F(r, c)], cols)], rows)

RAbs(a) == <<Abs(a[1]), a[2]>>

\* Matrix::identity
MatIdentity(n) == MkMat(n, n, LAMBDA r, c : IF r = c THEN R1 ELSE R0)

\* Matrix::transposed
transposed(m) == MkMat(Len(m[1]), Len(m), LAMBDA r, c : m[c][r])

\* acc += a(r, k) * b(k, c) for k = 1..K
RECURSIVE MulAcc(_, _, _, _, _, _)
MulAcc(a, b, r, c, k, acc) ==
    IF k > Len(b) THEN acc
    ELSE MulAcc(a, b, r, c, k + 1, RAdd(acc, RMul(a[r][k], b[k][c])))

\* operator*(Matrix, Matrix)
MatMul(a, b) == MkMat(Len(a), Len(b[1]), LAMBDA r, c : MulAcc(a, b, r, c, 1, R0))

\* operator*(T, Matrix)
MatScale(k, m) == MkMat(Len(m), Len(m[1]), LAMBDA r, c : RMul(k, m[r][c]))

\* Matrix::det for sizes 2 and 3
det2(m) == RSub(RMul(m[1][1], m[2][2]), RMul(m[1][2], m[2][1]))

det3(m) ==
    LET a == m[1][1] b == m[1][2] c == m[1][3]
        d == m[2][1] e == m[2][2] f == m[2][3]
        g == m[3][1] h == m[3][2] i == m[3][3]
    IN  RAdd(RSub(RMul(a, RSub(RMul(e, i), RMul(f, h))),
                  RMul(b, RSub(RMul(d, i), RMul(f, g)))),
             RMul(c, RSub(RMul(d, h), RMul(e, g))))

\* the outcome of an operation that may throw
Ok(v) == [ok |-> TRUE, val |-> v, what |-> NoThrow]
Throws(w) == [ok |-> FALSE, val |-> <<>>, what |-> w]

\* detail::inverse_gauss_jordan_N: the pivot search of one column
RECURSIVE PivLoop(_, _, _, _)
PivLoop(aug, col, r, piv) ==
    IF r > Len(aug) THEN piv
    ELSE PivLoop(aug, col, r + 1,
                 IF RLt(RAbs(aug[piv][col]), RAbs(aug[r][col])) THEN r ELSE piv)

\* the singularity test: a pivot, or a determinant, equal to T{}
PivotIsZero(v) == v = R0

\* one column: swap the pivot row in, scale it, eliminate the column
GJColumn(aug, col, piv) ==
    Let(MkMat(Len(aug), 2 * Len(aug), LAMBDA r, c :
            IF r = col THEN aug[piv][c]
            ELSE IF r = piv THEN aug[col][c] ELSE aug[r][c]), LAMBDA sw :
    Let(MkMat(Len(sw), 2 * Len(sw), LAMBDA r, c :
            IF r = col THEN RDiv(sw[r][c], sw[col][col]) ELSE sw[r][c]), LAMBDA sc :
        MkMat(Len(sc), 2 * Len(sc), LAMBDA r, c :
            IF r = col THEN sc[r][c]
            ELSE RSub(sc[r][c], RMul(sc[r][col], sc[col][c])))))

RECURSIVE GJLoop(_, _)
GJLoop(aug, col) ==
    IF col > Len(aug) THEN Ok(aug)
    ELSE Let(PivLoop(aug, col, col + 1, col), LAMBDA piv :
             IF PivotIsZero(aug[piv][col]) THEN Throws("domain_error")
             ELSE Let(GJColumn(aug, col, piv), LAMBDA next : GJLoop(next, col + 1)))

inverse_gauss_jordan_N(A) ==
    Let(MkMat(Len(A), 2 * Len(A), LAMBDA r, c :
            IF c <= Len(A) THEN A[r][c] ELSE IF c - Len(A) = r THEN R1 ELSE R0), LAMBDA aug :
    Let(GJLoop(aug, 1), LAMBDA res :
        IF res.ok THEN Ok(MkMat(Len(A), Len(A), LAMBDA r, c : res.val[r][Len(A) + c]))
        ELSE res))

\* the cofactor matrix the 3x3 branch of Matrix::inverse builds
adj3(m) ==
    LET M2(r1, c1, r2, c2) == RSub(RMul(m[r1][c1], m[r2][c2]), RMul(m[r1][c2], m[r2][c1]))
    IN  << <<M2(2, 2, 3, 3), RNeg(M2(2, 1, 3, 3)), M2(2, 1, 3, 2)>>,
           <<RNeg(M2(1, 2, 3, 3)), M2(1, 1, 3, 3), RNeg(M2(1, 1, 3, 2))>>,
           <<M2(1, 2, 2, 3), RNeg(M2(1, 1, 2, 3)), M2(1, 1, 2, 2)>> >>

\* Matrix::inverse
MatInverse(m) ==
    CASE Len(m) = 1 ->
            IF PivotIsZero(m[1][1]) THEN Throws("domain_error")
            ELSE Ok(<< <<RDiv(R1, m[1][1])>> >>)
      [] Len(m) = 2 ->
            Let(det2(m), LAMBDA d :
                IF PivotIsZero(d) THEN Throws("domain_error")
                ELSE Ok(<< <<RDiv(m[2][2], d), RDiv(RNeg(m[1][2]), d)>>,
                           <<RDiv(RNeg(m[2][1]), d), RDiv(m[1][1], d)>> >>))
      [] Len(m) = 3 ->
            Let(det3(m), LAMBDA d :
                IF PivotIsZero(d) THEN Throws("domain_error")
                ELSE Let(transposed(adj3(m)), LAMBDA at : Ok(MatScale(RDiv(R1, d), at))))
      [] OTHER -> inverse_gauss_jordan_N(m)

(***************************************************************************)
(* Vector<T,3> and Quaternion<T>.  norm() is a square root: the inputs of  *)
(* the model have rational norms.                                          *)
(***************************************************************************)
V3(x, y, z) == <<RInt(x), RInt(y), RInt(z)>>

VSub(a, b) == <<RSub(a[1], b[1]), RSub(a[2], b[2]), RSub(a[3], b[3])>>
VDot(a, b) == RAdd(RAdd(RMul(a[1], b[1]), RMul(a[2], b[2])), RMul(a[3], b[3]))

cross(a, b) ==
    <<RSub(RMul(a[2], b[3]), RMul(a[3], b[2])),
      RSub(RMul(a[3], b[1]), RMul(a[1], b[3])),
      RSub(RMul(a[1], b[2]), RMul(a[2], b[1]))>>

ISqrt(n) == CHOOSE r \in 0..n : r * r = n
RSqrt(a) == <<ISqrt(a[1]), ISqrt(a[2])>>

\* Vector::normalized: the zero vector stays zero
VNormalized(v) ==
    Let(RSqrt(VDot(v, v)), LAMBDA n :
        IF n = R0 THEN V3(0, 0, 0) ELSE <<RDiv(v[1], n), RDiv(v[2], n), RDiv(v[3], n)>>)

\* Quaternion::normalized: a zero quaternion becomes the identity
QuatNormalized(q) ==
    Let(RSqrt(RAdd(RAdd(RMul(q[1], q[1]), RMul(q[2], q[2])),
                   RAdd(RMul(q[3], q[3]), RMul(q[4], q[4])))), LAMBDA n :
        IF n = R0 THEN <<R1, R0, R0, R0>>
        ELSE <<RDiv(q[1], n), RDiv(q[2], n), RDiv(q[3], n), RDiv(q[4], n)>>)

\* Quaternion::to_matrix3
to_matrix3(quat) ==
    Let(QuatNormalized(quat), LAMBDA q :
    LET w == q[1] x == q[2] y == q[3] z == q[4]
        xx == RMul(x, x) yy == RMul(y, y) zz == RMul(z, z)
        xy == RMul(x, y) xz == RMul(x, z) yz == RMul(y, z)
        wx == RMul(w, x) wy == RMul(w, y) wz == RMul(w, z)
        two == RInt(2)
    IN  << <<RSub(R1, RMul(two, RAdd(yy, zz))), RMul(two, RSub(xy, wz)), RMul(two, RAdd(xz, wy))>>,
           <<RMul(two, RAdd(xy, wz)), RSub(R1, RMul(two, RAdd(xx, zz))), RMul(two, RSub(yz, wx))>>,
           <<RMul(two, RSub(xz, wy)), RMul(two, RAdd(yz, wx)), RSub(R1, RMul(two, RAdd(xx, yy)))>> >>)

(***************************************************************************)
(* Transform<T>: the forward matrix m_ and the stored inverse inv_.        *)
(***************************************************************************)
identity4 == MatIdentity(4)

\* Transform(const Mat4& m, const Mat4& inv)
TransformPair(m, inv) == [m |-> m, inv |-> inv]

\* Transform()
TransformDefault == TransformPair(identity4, identity4)

\* explicit Transform(const Mat4& m)
TransformOf(m) ==
    Let(MatInverse(m), LAMBDA r : IF r.ok THEN Ok(TransformPair(m, r.val)) ELSE r)

\* Transform::inverse: the matrices swapped
TransformInverse(t) == TransformPair(t.inv, t.m)

\* Transform::operator*
TransformMul(a, b) == TransformPair(MatMul(a.m, b.m), MatMul(b.inv, a.inv))

\* a 4x4 matrix from a 3x3 block, a last column and the row (0, 0, 0, 1)
Affine(m3, t) ==
    MkMat(4, 4, LAMBDA r, c :
        IF r = 4 THEN (IF c = 4 THEN R1 ELSE R0)
        ELSE IF c = 4 THEN t[r] ELSE m3[r][c])

\* Transform::from_trs
from_trs(t, r, s) ==
    Let(to_matrix3(r), LAMBDA R :
    Let(MkMat(3, 3, LAMBDA r0, c0 : RMul(s[r0], R[r0][c0])), LAMBDA SR :
    Let(<<RDiv(R1, s[1]), RDiv(R1, s[2]), RDiv(R1, s[3])>>, LAMBDA invS :
    Let(transposed(R), LAMBDA Rt :
    Let(MkMat(3, 3, LAMBDA r0, c0 : RMul(Rt[r0][c0], invS[c0])), LAMBDA RtSinv :
    Let(Tup([i \in 1..3 |-> RNeg(VDot(RtSinv[i], t))], 3), LAMBDA tinv :
        TransformPair(Affine(SR, t), Affine(RtSinv, tinv))))))))

\* Transform::from_matrix_checked
from_matrix_checked(m) ==
    Let(MatInverse(m), LAMBDA inv : IF inv.ok THEN Ok(TransformPair(m, inv.val)) ELSE inv)

\* Transform::look_at
look_at(eye, target, up) ==
    Let(VNormalized(VSub(target, eye)), LAMBDA f :
    Let(VNormalized(cross(f, up)), LAMBDA sd :
    Let(cross(sd, f), LAMBDA u :
    Let(Affine(<<sd, u, <<RNeg(f[1]), RNeg(f[2]), RNeg(f[3])>> >>,
               <<RNeg(VDot(sd, eye)), RNeg(VDot(u, eye)), VDot(f, eye)>>), LAMBDA V :
    Let(MatInverse(V), LAMBDA Vinv :
        IF Vinv.ok THEN Ok(TransformPair(Vinv.val, V)) ELSE Vinv)))))

(***************************************************************************)
(* SceneObject with its transform: the cached world matrix, inverse world  *)
(* matrix, normal matrix and world AABB.  A geometry is its object-space   *)
(* AABB (NoGeom3 is the null pointer).                                     *)
(***************************************************************************)
EmptyBox3 == [empty |-> TRUE, min |-> V3(0, 0, 0), max |-> V3(0, 0, 0)]
Box3(mn, mx) ==
    IF \A i \in 1..3 : RLe(mn[i], mx[i]) THEN [empty |-> FALSE, min |-> mn, max |-> mx]
    ELSE EmptyBox3

NoGeom3 == [null |-> TRUE, box |-> EmptyBox3]
Geom3(box) == [null |-> FALSE, box |-> box]

\* AABB::expand(point)
expand(box, p) ==
    IF box.empty THEN [empty |-> FALSE, min |-> p, max |-> p]
    ELSE [empty |-> FALSE,
          min |-> Tup([i \in 1..3 |-> IF RLt(p[i], box.min[i]) THEN p[i] ELSE box.min[i]], 3),
          max |-> Tup([i \in 1..3 |-> IF RLt(box.max[i], p[i]) THEN p[i] ELSE box.max[i]], 3)]

\* the eight corners in the order of update_aabb
Corners(mn, mx) ==
    << <<mn[1], mn[2], mn[3]>>, <<mx[1], mn[2], mn[3]>>, <<mn[1], mx[2], mn[3]>>,
       <<mn[1], mn[2], mx[3]>>, <<mx[1], mx[2], mn[3]>>, <<mx[1], mn[2], mx[3]>>,
       <<mn[1], mx[2], mx[3]>>, <<mx[1], mx[2], mx[3]>> >>

\* m_world_ * to_homogeneous_point(c), first three components
WorldPoint(m, c) ==
    Tup([i \in 1..3 |->
            RAdd(RAdd(RMul(m[i][1], c[1]), RMul(m[i][2], c[2])),
                 RAdd(RMul(m[i][3], c[3]), m[i][4]))], 3)

RECURSIVE ExpandAll(_, _, _, _)
ExpandAll(box, m, cs, i) ==
    IF i > Len(cs) THEN box
    ELSE Let(WorldPoint(m, cs[i]), LAMBDA cw :
         Let(expand(box, cw), LAMBDA world_box : ExpandAll(world_box, m, cs, i + 1)))

\* SceneObject::update_aabb with the cached world matrix
update_aabb_world(o) ==
    IF o.geom.null THEN [o EXCEPT !.aabb_world = EmptyBox3]
    ELSE IF o.geom.box.empty THEN [o EXCEPT !.aabb_world = EmptyBox3]
    ELSE Let(Corners(o.geom.box.min, o.geom.box.max), LAMBDA corners :
             [o EXCEPT !.aabb_world = ExpandAll(EmptyBox3, o.m_world, corners, 1)])

\* SceneObject::cache_from_transform_
cache_from_transform_(o) ==
    LET inv == o.xf.inv
    IN  [o EXCEPT !.m_world = o.xf.m,
                  !.inv_world = inv,
                  !.normal_it3 = << <<inv[1][1], inv[2][1], inv[3][1]>>,
                                    <<inv[1][2], inv[2][2], inv[3][2]>>,
                                    <<inv[1][3], inv[2][3], inv[3][3]>> >>]

\* the members before the constructor body runs
RawObject(geom, material, xform) ==
    [geom |-> geom, mat |-> material, xf |-> xform,
     m_world |-> MkMat(4, 4, LAMBDA r, c : R0),
     inv_world |-> MkMat(4, 4, LAMBDA r, c : R0),
     normal_it3 |-> MkMat(3, 3, LAMBDA r, c : R0),
     aabb_world |-> EmptyBox3]

\* SceneObject()
SceneObjectDefault ==
    cache_from_transform_(RawObject(NoGeom3, DefaultMaterial, TransformDefault))

\* SceneObject(geom, material, xform)
SceneObjectOf(geom, material, xform) ==
    Let(cache_from_transform_(RawObject(geom, material, xform)), LAMBDA c :
        update_aabb_world(c))

\* SceneObject::set_transform
set_transformKeepsAabb(o, xform) == cache_from_transform_([o EXCEPT !.xf = xform])
set_transform(o, xform) ==
    Let(cache_from_transform_([o EXCEPT !.xf = xform]), LAMBDA c : update_aabb_world(c))

\* SceneObject::set_material
set_material(o, m) == [o EXCEPT !.mat = m]

(***************************************************************************)
(* SceneObjectSpec: an object is constructed, then its transform and its   *)
(* material are set any number of times.                                   *)
(***************************************************************************)
QuatIdentity == <<R1, R0, R0, R0>>
QuatThird == <<R1, R1, R1, R1>>
QuatTilt == <<Rat(3, 5), R0, R0, Rat(4, 5)>>

Shear4 ==
    << <<R1, RInt(2), R0, R0>>, <<R0, R1, R0, RInt(-1)>>,
       <<R0, RHalf, R1, R0>>, <<R0, R0, R0, R1>> >>

XfPool ==
    { TransformDefault,
      from_trs(V3(3, -2, 1), QuatThird, V3(2, 1, 3)),
      from_trs(V3(0, 0, 0), QuatTilt, V3(1, 1, 1)),
      from_trs(V3(1, 0, 0), QuatIdentity, <<RHalf, RInt(2), R1>>),
      look_at(V3(0, 0, 5), V3(0, 0, 0), V3(0, 1, 0)).val,
      TransformOf(Shear4).val,
      TransformPair(Shear4, identity4) }

GeomPool ==
    { NoGeom3, Geom3(EmptyBox3),
      Geom3(Box3(V3(-1, -1, -1), V3(1, 1, 1))),
      Geom3(Box3(V3(0, 0, 0), V3(2, 1, 3))) }

ObjMaterials == {DefaultMaterial, mWhite, mLight, mGlass}

InitSceneObject ==
    /\ InitRenderIdle
    /\ unit \in {[so |-> SceneObjectDefault, op |-> "default"]}
              \cup {[so |-> SceneObjectOf(g, m, x), op |-> "construct"] :
                        g \in GeomPool, m \in {DefaultMaterial, mWhite}, x \in XfPool}
    /\ thrown = NoThrow

SetTransform ==
    /\ \E x \in XfPool : unit' = [so |-> set_transform(unit.so, x), op |-> "set_transform"]
    /\ UNCHANGED <<renderVars, thrown>>

SetMaterial ==
    /\ \E m \in ObjMaterials : unit' = [so |-> set_material(unit.so, m), op |-> "set_material"]
    /\ UNCHANGED <<renderVars, thrown>>

NextSceneObject == SetTransform \/ SetMaterial

SceneObjectSpec == InitSceneObject /\ [][NextSceneObject]_vars

\* the world box of a geometry under a matrix: per axis the least and the
\* greatest coordinate of the transformed corners
WorldCoords(g, m, i) ==
    {WorldPoint(m, Corners(g.box.min, g.box.max)[k])[i] : k \in 1..8}

IsWorldBox(b, g, m) ==
    IF g.null \/ g.box.empty THEN b.empty
    ELSE /\ ~b.empty
         /\ \A i \in 1..3 :
              /\ b.min[i] \in WorldCoords(g, m, i)
              /\ b.max[i] \in WorldCoords(g, m, i)
              /\ \A v \in WorldCoords(g, m, i) : RLe(b.min[i], v) /\ RLe(v, b.max[i])

\* C13: the cached world matrix, inverse world matrix, normal matrix and
\* world AABB of a SceneObject are those of its current transform and
\* geometry, after construction and after every set_transform and
\* set_material
C13_CachesMatchTransform ==
    LET o == unit.so
    IN  /\ o.m_world = o.xf.m
        /\ o.inv_world = o.xf.inv
        /\ o.normal_it3 = transposed(MkMat(3, 3, LAMBDA r, c : o.xf.inv[r][c]))
        /\ IsWorldBox(o.aabb_world, o.geom, o.xf.m)

\* C13 witness: set_transform replaced the transform of an object with a
\* geometry, and the world box is no longer the geometry's own box
C13_Witness ==
    /\ unit.op = "set_transform"
    /\ ~unit.so.geom.null
    /\ ~unit.so.aabb_world.empty
    /\ unit.so.aabb_world # unit.so.geom.box
    /\ unit.so.xf # TransformDefault
    /\ unit.so.normal_it3 # MatIdentity(3)

(***************************************************************************)
(* TransformSpec: matrices are inverted and transforms are made by every   *)
(* constructor and factory, inverted and composed.                         *)
(***************************************************************************)
MaxOps == 2

IntMat(m) == MkMat(Len(m), Len(m[1]), LAMBDA r, c : RInt(m[r][c]))

\* regular and singular 4x4 matrices; Swap4 needs row exchanges, Dep4 is
\* found singular only at its third column
Scale4 == IntMat(<< <<2, 0, 0, 0>>, <<0, 1, 0, 0>>, <<0, 0, 3, 0>>, <<0, 0, 0, 1>> >>)
Swap4 == IntMat(<< <<0, 1, 0, 2>>, <<1, 0, 0, 0>>, <<0, 0, 0, 1>>, <<0, 0, 4, 0>> >>)
Full4 == IntMat(<< <<5, 1, 0, 2>>, <<0, 3, -1, 2>>, <<2, 0, 4, 1>>, <<1, -2, 0, 3>> >>)
ZeroRow4 == IntMat(<< <<1, 0, 0, 0>>, <<0, 0, 0, 0>>, <<0, 0, 1, 0>>, <<0, 0, 0, 1>> >>)
Dep4 == IntMat(<< <<1, 2, 3, 4>>, <<2, 1, 0, 1>>, <<3, 3, 3, 5>>, <<0, 0, 0, 1>> >>)

Mat4Pool == {identity4, Shear4, Scale4, Swap4, Full4, ZeroRow4, Dep4}

\* matrices of the other sizes
MatPool ==
    { IntMat(<< <<0>> >>), IntMat(<< <<4>> >>),
      IntMat(<< <<0, 0>>, <<0, 0>> >>), IntMat(<< <<1, 2>>, <<2, 4>> >>),
      IntMat(<< <<1, 2>>, <<3, 4>> >>),
      IntMat(<< <<1, 2, 3>>, <<4, 5, 6>>, <<7, 8, 9>> >>),
      IntMat(<< <<2, 0, 1>>, <<1, 3, 0>>, <<0, 1, 1>> >>),
      IntMat(<< <<2, 1, 0, -1, 3>>, <<4, -2, 1, 0, 5>>, <<0, 3, 2, 1, -1>>,
                <<1, 0, -1, 4, 2>>, <<3, 2, 1, 0, 1>> >>),
      IntMat(<< <<1, 2, 3, 4, 5>>, <<0, 1, 0, 1, 0>>, <<1, 2, 3, 4, 5>>,
                <<2, 0, 1, 0, 2>>, <<0, 0, 0, 0, 0>> >>) }

TrsArgs ==
    { <<V3(3, -2, 1), QuatThird, V3(2, 1, 3)>>,
      <<V3(0, 0, 0), QuatTilt, V3(1, 1, 1)>>,
      <<V3(1, 0, 0), QuatIdentity, <<RHalf, RInt(2), R1>> >>,
      <<V3(0, 2, 0), <<R0, R0, R0, R0>>, V3(2, 2, 2)>> }

ComposeArgs ==
    { <<V3(3, -2, 1), QuatThird, <<RHalf, RInt(2), R1>> >> }

LookAtArgs ==
    { <<V3(0, 0, 5), V3(0, 0, 0), V3(0, 1, 0)>>,
      <<V3(1, 2, 3), V3(1, 2, -1), V3(1, 0, 0)>>,
      <<V3(0, 0, 5), V3(0, 0, 5), V3(0, 1, 0)>>,
      <<V3(0, 0, 5), V3(0, 0, 0), V3(0, 0, 1)>> }

\* unit.xf is the transform held once made is true; op, arg and made tell
\* the last operation, its matrix argument and whether it produced an
\* object; lhs and rhs are the operands of the last composition; checked
\* tells that no matrix pair of unit.xf came from the two-matrix constructor
TransformUnit(xf, op, arg, made, checked, ops) ==
    [xf |-> xf, op |-> op, arg |-> arg, made |-> made, checked |-> checked,
     lhs |-> TransformDefault, rhs |-> TransformDefault, ops |-> ops]

InitTransform ==
    /\ InitRenderIdle
    /\ unit = TransformUnit(TransformDefault, "none", <<>>, FALSE, TRUE, 0)
    /\ thrown = NoThrow

\* the unit after a constructor or factory of outcome r
Made(r, op, arg) ==
    IF r.ok THEN TransformUnit(r.val, op, arg, TRUE, TRUE, unit.ops)
    ELSE [unit EXCEPT !.op = op, !.arg = arg, !.made = FALSE]

MatrixInverse ==
    /\ unit.op = "none"
    /\ \E m \in MatPool \cup Mat4Pool :
          \E r \in {MatInverse(m)} :
             /\ unit' = [unit EXCEPT !.op = "Matrix::inverse", !.arg = m,
                                     !.made = r.ok, !.lhs = r.val]
             /\ thrown' = r.what
             /\ UNCHANGED renderVars

NewDefault ==
    /\ unit.op = "none"
    /\ unit' = TransformUnit(TransformDefault, "Transform()", <<>>, TRUE, TRUE, unit.ops)
    /\ thrown' = NoThrow
    /\ UNCHANGED renderVars

NewOf ==
    /\ unit.op = "none"
    /\ \E m \in Mat4Pool :
          \E r \in {TransformOf(m)} :
             /\ unit' = Made(r, "Transform(m)", m)
             /\ thrown' = r.what
    /\ UNCHANGED renderVars

NewPair ==
    /\ unit.op = "none"
    /\ \E m \in Mat4Pool, inv \in {identity4, Scale4, Shear4} :
          unit' = TransformUnit(TransformPair(m, inv), "Transform(m, inv)", m, TRUE, FALSE,
                                unit.ops)
    /\ thrown' = NoThrow
    /\ UNCHANGED renderVars

FromTrs ==
    /\ unit.op = "none"
    /\ \E a \in TrsArgs :
          unit' = TransformUnit(from_trs(a[1], a[2], a[3]), "from_trs", <<>>, TRUE, TRUE,
                                unit.ops)
    /\ thrown' = NoThrow
    /\ UNCHANGED renderVars

FromMatrixChecked ==
    /\ unit.op = "none"
    /\ \E m \in Mat4Pool :
          \E r \in {from_matrix_checked(m)} :
             /\ unit' = Made(r, "from_matrix_checked", m)
             /\ thrown' = r.what
    /\ UNCHANGED renderVars

LookAt ==
    /\ unit.op = "none"
    /\ \E a \in LookAtArgs :
          \E r \in {look_at(a[1], a[2], a[3])} :
             /\ unit' = Made(r, "look_at", <<>>)
             /\ thrown' = r.what
    /\ UNCHANGED renderVars

\* the operations on a transform that was made
Held == unit.made /\ unit.op # "Matrix::inverse"

Inverse ==
    /\ Held
    /\ unit' = [unit EXCEPT !.xf = TransformInverse(unit.xf), !.op = "inverse",
                            !.arg = <<>>, !.made = TRUE]
    /\ thrown' = NoThrow
    /\ UNCHANGED renderVars

\* unit.xf * b and b * unit.xf, b being the inverse of unit.xf or a
\* transform made by from_trs
Compose ==
    /\ Held
    /\ unit.ops < MaxOps
    /\ \E b \in {TransformInverse(unit.xf)} \cup {from_trs(a[1], a[2], a[3]) : a \in ComposeArgs} :
          \E p \in {<<unit.xf, b>>, <<b, unit.xf>>} :
             unit' = [unit EXCEPT !.xf = TransformMul(p[1], p[2]), !.op = "operator*",
                                  !.arg = <<>>, !.made = TRUE, !.lhs = p[1], !.rhs = p[2],
                                  !.ops = @ + 1]
    /\ thrown' = NoThrow
    /\ UNCHANGED renderVars

NextTransform ==
    \/ MatrixInverse \/ NewDefault \/ NewOf \/ NewPair \/ FromTrs
    \/ FromMatrixChecked \/ LookAt \/ Inverse \/ Compose

TransformSpec == InitTransform /\ [][NextTransform]_vars

\* a and b are inverses of each other
IsInversePair(a, b) ==
    /\ MatMul(a, b) = MatIdentity(Len(a))
    /\ MatMul(b, a) = MatIdentity(Len(a))

\* C14 as stated: for every Transform the public interface yields the
\* stored inverse is the inverse of the stored matrix; inverse() twice
\* gives the original; A * B stores B.inverse * A.inverse
C14_InverseIsInverse ==
    Held =>
    /\ IsInversePair(unit.xf.m, unit.xf.inv)
    /\ TransformInverse(TransformInverse(unit.xf)) = unit.xf
    /\ unit.op = "operator*" =>
          /\ unit.xf.m = MatMul(unit.lhs.m, unit.rhs.m)
          /\ unit.xf.inv = MatMul(unit.rhs.inv, unit.lhs.inv)

\* C14, the part that holds: the same for the transforms whose matrices
\* never passed through the two-matrix constructor
C14_CheckedInverseIsInverse ==
    unit.checked => C14_InverseIsInverse

\* C14 witness: a composition of transforms that are not the identity,
\* none from the two-matrix constructor
C14_Witness ==
    /\ Held
    /\ unit.checked
    /\ unit.op = "operator*"
    /\ unit.ops = 2
    /\ unit.lhs # unit.rhs
    /\ unit.xf.m # identity4
    /\ unit.xf.m # unit.xf.inv

\* ---------------------------------------------------------------------
\* Camera and the camera a Scene holds
\* ---------------------------------------------------------------------

CameraOf(c2w, fov_y, aspect, z_near, z_far) ==
    [c2w |-> c2w, fov_y |-> fov_y, aspect |-> aspect, z_near |-> z_near, z_far |-> z_far]

\* Camera::Camera: the two argument checks of the constructor body
CameraCtorNearUnchecked(c2w, fov_y, aspect, z_near, z_far) ==
    IF ~FGt(aspect, R0) THEN Throws("invalid_argument")
    ELSE IF ~FGt(z_far, z_near) THEN Throws("invalid_argument")
    ELSE Ok(CameraOf(c2w, fov_y, aspect, z_near, z_far))
CameraCtor(c2w, fov_y, aspect, z_near, z_far) ==
    IF ~FGt(aspect, R0) THEN Throws("invalid_argument")
    ELSE IF ~FGt(z_near, R0) \/ ~FGt(z_far, z_near) THEN Throws("invalid_argument")
    ELSE Ok(CameraOf(c2w, fov_y, aspect, z_near, z_far))

\* Camera::from_look_at: look_at first, then the constructor
from_look_at(eye, target, up, fov_y, aspect, z_near, z_far) ==
    Let(look_at(eye, target, up), LAMBDA x :
        IF x.ok THEN CameraCtor(x.val, fov_y, aspect, z_near, z_far) ELSE x)

\* 60 degrees in radians, to four digits
Fov60 == Rat(10472, 10000)

\* Scene::Scene(): the camera of the default scene
SceneDefaultCamera ==
    from_look_at(V3(0, 0, 0), V3(0, 0, -1), V3(0, 1, 0), Fov60, R1, Rat(1, 10), RInt(1000))

NoCamera == [c2w |-> <<>>]

\* the aspect, near and far a caller passes: two valid triples, then one
\* argument at a time zero, negative, out of order or a NaN
CameraArgs ==
    { <<R1, Rat(1, 10), RInt(1000)>>, <<RInt(2), R1, RInt(2)>>,
      <<R0, Rat(1, 10), RInt(1000)>>, <<RInt(-1), R1, RInt(2)>>, <<NaN, R1, RInt(2)>>,
      <<R1, R0, RInt(1000)>>, <<R1, RInt(-1), RInt(2)>>, <<R1, NaN, RInt(2)>>,
      <<R1, R1, R1>>, <<R1, RInt(2), R1>>, <<R1, R1, NaN>> }

\* eye, target and up of from_look_at: a view, and one whose target is the eye
CameraViews ==
    { <<V3(0, 0, 5), V3(0, 0, 0), V3(0, 1, 0)>>,
      <<V3(0, 0, 5), V3(0, 0, 5), V3(0, 1, 0)>> }

\* unit.cam is the last camera constructed and unit.held the camera of the
\* scene (NoCamera while there is none); op, arg and made tell the last
\* operation, its aspect, near and far, and whether it produced an object
CameraUnit(cam, held, op, arg, made) ==
    [cam |-> cam, held |-> held, op |-> op, arg |-> arg, made |-> made]

InitCamera ==
    /\ InitRenderIdle
    /\ unit = CameraUnit(NoCamera, NoCamera, "none", <<>>, FALSE)
    /\ thrown = NoThrow

\* the unit after a camera construction of outcome r
Constructed(r, op, arg) ==
    [unit EXCEPT !.cam = IF r.ok THEN r.val ELSE @, !.op = op, !.arg = arg, !.made = r.ok]

NewCamera ==
    /\ \E a \in CameraArgs :
          \E r \in {CameraCtor(TransformDefault, Fov60, a[1], a[2], a[3])} :
             /\ unit' = Constructed(r, "Camera", a)
             /\ thrown' = r.what
    /\ UNCHANGED renderVars

FromLookAt ==
    /\ \E v \in CameraViews, a \in CameraArgs :
          \E r \in {from_look_at(v[1], v[2], v[3], Fov60, a[1], a[2], a[3])} :
             /\ unit' = Constructed(r, "from_look_at", a)
             /\ thrown' = r.what
    /\ UNCHANGED renderVars

\* Scene::Scene()
NewScene ==
    /\ unit.held = NoCamera
    /\ unit' = [unit EXCEPT !.held = SceneDefaultCamera.val, !.op = "Scene()", !.arg = <<>>,
                            !.made = TRUE]
    /\ thrown' = SceneDefaultCamera.what
    /\ UNCHANGED renderVars

\* Scene::Scene(camera, background), of a camera that exists
NewSceneOf ==
    /\ unit.held = NoCamera
    /\ unit.cam # NoCamera
    /\ unit' = [unit EXCEPT !.held = unit.cam, !.op = "Scene(camera, background)",
                            !.arg = <<>>, !.made = TRUE]
    /\ thrown' = NoThrow
    /\ UNCHANGED renderVars

\* Scene::set_camera, of a camera that exists
SetCamera ==
    /\ unit.held # NoCamera
    /\ unit.cam # NoCamera
    /\ unit' = [unit EXCEPT !.held = unit.cam, !.op = "set_camera", !.arg = <<>>, !.made = TRUE]
    /\ thrown' = NoThrow
    /\ UNCHANGED renderVars

NextCamera == NewCamera \/ FromLookAt \/ NewScene \/ NewSceneOf \/ SetCamera

CameraSpec == InitCamera /\ [][NextCamera]_vars

CameraValid(c) ==
    /\ FGt(c.aspect, R0)
    /\ FGt(c.z_near, R0)
    /\ FGt(c.z_far, c.z_near)

\* aspect <= 0, near <= 0 or far <= near
BadCameraArgs(arg) ==
    \/ arg[1] # NaN /\ RLe(arg[1], R0)
    \/ arg[2] # NaN /\ RLe(arg[2], R0)
    \/ arg[2] # NaN /\ arg[3] # NaN /\ RLe(arg[3], arg[2])

\* C15: a Camera construction, direct or through from_look_at, with
\* aspect <= 0, near <= 0 or far <= near throws and produces no camera;
\* every camera that exists, the one a Scene holds after any sequence of
\* set_camera calls included, has aspect > 0 and 0 < near < far.
C15_CamerasValid ==
    /\ (unit.op \in {"Camera", "from_look_at"} /\ BadCameraArgs(unit.arg)) =>
          (thrown # NoThrow /\ ~unit.made)
    /\ unit.cam # NoCamera => CameraValid(unit.cam)
    /\ unit.held # NoCamera => CameraValid(unit.held)

\* C15 witness: a scene that took a second camera through set_camera, and
\* a construction with near <= 0 rejected after that
C15_Witness ==
    /\ unit.held # NoCamera
    /\ unit.held # SceneDefaultCamera.val
    /\ unit.held # unit.cam
    /\ unit.op = "Camera"
    /\ unit.arg[2] = R0
    /\ FGt(unit.arg[1], R0)
    /\ FGt(unit.arg[3], R0)
    /\ thrown = "invalid_argument"

(***************************************************************************)
(* Matrix<float, N, N>.  A float is <<s, m, e>>, the number s * m * 2^e    *)
(* with s the sign and m a 24-bit significand (2^23 <= m < 2^24), or       *)
(* FZero.  Every operator rounds its exact result to the nearest float,    *)
(* ties to even, as the operators of IEEE 754 binary32 do.  Exponents stay *)
(* far from the ends of the range for the matrices inverted here.          *)
(***************************************************************************)
Pow2(k) == 2 ^ k

FZero == <<1, 0, 0>>

\* n / 2 with the bit shifted out kept in the last place
HalfJam(n) == (n \div 2) + (IF n % 2 = 1 /\ (n \div 2) % 2 = 0 THEN 1 ELSE 0)

\* s * n * 2^e rounded to a float; an inexact n comes with 26 bits or more
\* and has its last bit set
RECURSIVE FRound(_, _, _)
FRound(s, n, e) ==
    IF n = 0 THEN FZero
    ELSE IF n < Pow2(25) THEN FRound(s, 2 * n, e - 1)
    ELSE IF n >= Pow2(26) THEN FRound(s, HalfJam(n), e + 1)
    ELSE LET m == n \div 4
             rest == n % 4
             up == rest = 3 \/ (rest = 2 /\ m % 2 = 1)
         IN  IF up /\ m + 1 = Pow2(24) THEN <<s, Pow2(23), e + 3>>
             ELSE <<s, IF up THEN m + 1 ELSE m, e + 2>>

\* the float of an integer
FInt(k) == FRound(IF k < 0 THEN -1 ELSE 1, Abs(k), 0)

FNeg(a) == IF a[2] = 0 THEN a ELSE <<-a[1], a[2], a[3]>>

\* operator*: the 48-bit product of the significands, in two halves
FMul(a, b) ==
    IF a[2] = 0 \/ b[2] = 0 THEN FZero
    ELSE LET h == Pow2(12)
             a1 == a[2] \div h
             a0 == a[2] % h
             b1 == b[2] \div h
             b0 == b[2] % h
             mid == a1 * b0 + a0 * b1
             low == (mid % h) * h + a0 * b0
             hi == a1 * b1 + (mid \div h) + (low \div Pow2(24))
             lo == low % Pow2(24)
             n == hi * 8 + (lo \div Pow2(21))
             jam == IF lo % Pow2(21) # 0 /\ n % 2 = 0 THEN 1 ELSE 0
         IN  FRound(a[1] * b[1], n + jam, a[3] + b[3] + 21)

\* k more bits of the quotient r / d, by long division
RECURSIVE DivLoop(_, _, _, _)
DivLoop(r, d, k, q) ==
    IF k = 0 THEN <<q, r>>
    ELSE IF r >= d THEN DivLoop(2 * (r - d), d, k - 1, 2 * q + 1)
    ELSE DivLoop(2 * r, d, k - 1, 2 * q)

\* operator/ by a non-zero float
FDiv(a, b) ==
    IF a[2] = 0 THEN FZero
    ELSE LET qr == DivLoop(a[2], b[2], 27, 0)
             jam == IF qr[2] # 0 /\ qr[1] % 2 = 0 THEN 1 ELSE 0
         IN  FRound(a[1] * b[1], qr[1] + jam, a[3] - b[3] - 26)

\* the significand of y, with three more bits, moved down d places
ShiftJam(m, d) ==
    IF d >= 27 THEN 1
    ELSE LET q == (m * 8) \div Pow2(d)
         IN  q + (IF (m * 8) % Pow2(d) # 0 /\ q % 2 = 0 THEN 1 ELSE 0)

\* operator+
FAdd(a, b) ==
    IF a[2] = 0 THEN b
    ELSE IF b[2] = 0 THEN a
    ELSE LET x == IF a[3] >= b[3] THEN a ELSE b
             y == IF a[3] >= b[3] THEN b ELSE a
             sum == x[1] * x[2] * 8 + y[1] * ShiftJam(y[2], x[3] - y[3])
         IN  FRound(IF sum < 0 THEN -1 ELSE 1, Abs(sum), x[3] - 3)

\* operator-
FSub(a, b) == FAdd(a, FNeg(b))

\* std::abs(a) > std::abs(b)
FAbsGt(a, b) ==
    /\ a[2] # 0
    /\ \/ b[2] = 0
       \/ a[3] > b[3]
       \/ a[3] = b[3] /\ a[2] > b[2]

\* detail::inverse_gauss_jordan_N<float, N>: the pivot search of one column
RECURSIVE PivLoopFloat(_, _, _, _)
PivLoopFloat(aug, col, r, piv) ==
    IF r > Len(aug) THEN piv
    ELSE PivLoopFloat(aug, col, r + 1, IF FAbsGt(aug[r][col], aug[piv][col]) THEN r ELSE piv)

\* the singularity test on a float: aug[piv][col] == T{}
PivotIsZeroFloat(v) == v[2] = 0

\* one column: swap the pivot row in, divide it by the pivot, subtract
\* factor times it from every other row whose factor is not zero
GJColumnFloat(aug, col, piv) ==
    Let(MkMat(Len(aug), 2 * Len(aug), LAMBDA r, c :
            IF r = col THEN aug[piv][c]
            ELSE IF r = piv THEN aug[col][c] ELSE aug[r][c]), LAMBDA sw :
    Let(MkMat(Len(sw), 2 * Len(sw), LAMBDA r, c :
            IF r = col THEN FDiv(sw[r][c], sw[col][col]) ELSE sw[r][c]), LAMBDA sc :
        MkMat(Len(sc), 2 * Len(sc), LAMBDA r, c :
            IF r = col \/ sc[r][col][2] = 0 THEN sc[r][c]
            ELSE FSub(sc[r][c], FMul(sc[r][col], sc[col][c])))))

RECURSIVE GJLoopFloat(_, _)
GJLoopFloat(aug, col) ==
    IF col > Len(aug) THEN Ok(aug)
    ELSE Let(PivLoopFloat(aug, col, col + 1, col), LAMBDA piv :
             IF PivotIsZeroFloat(aug[piv][col]) THEN Throws("domain_error")
             ELSE Let(GJColumnFloat(aug, col, piv), LAMBDA next : GJLoopFloat(next, col + 1)))

\* Matrix<float, N, N>::inverse for N >= 4, of a matrix of integers
inverse_gauss_jordan_N_float(A) ==
    Let(MkMat(Len(A), 2 * Len(A), LAMBDA r, c :
            IF c <= Len(A) THEN FInt(A[r][c])
            ELSE IF c - Len(A) = r THEN FInt(1) ELSE FZero), LAMBDA aug :
    Let(GJLoopFloat(aug, 1), LAMBDA res :
        IF res.ok THEN Ok(MkMat(Len(A), Len(A), LAMBDA r, c : res.val[r][Len(A) + c]))
        ELSE res))

\* ---------------------------------------------------------------------
\* Inverting 4x4 matrices of floats: Matrix::inverse, Transform(m) and
\* Transform::from_matrix_checked with T = float
\* ---------------------------------------------------------------------

\* the rows of the upper-left 3x3 block of an affine matrix
AffineRows == { <<1, 2, 3>>, <<4, 5, 6>>, <<7, 8, 9>>, <<0, 1, 0>>, <<2, 4, 6>> }

AffineInt(a, b, c) ==
    << <<a[1], a[2], a[3], 0>>, <<b[1], b[2], b[3], 0>>, <<c[1], c[2], c[3], 0>>,
       <<0, 0, 0, 1>> >>

\* unit.arg is the matrix of the last request, unit.made whether the
\* request returned an object and unit.inv the inverse it returned
FloatUnit(op, arg, made, inv) == [op |-> op, arg |-> arg, made |-> made, inv |-> inv]

InitFloat ==
    /\ InitRenderIdle
    /\ unit = FloatUnit("none", <<>>, FALSE, <<>>)
    /\ thrown = NoThrow

\* Matrix<float, 4, 4>::inverse
MatrixInverseFloat ==
    /\ unit.op = "none"
    /\ \E a \in AffineRows, b \in AffineRows, c \in AffineRows :
          \E r \in {inverse_gauss_jordan_N_float(AffineInt(a, b, c))} :
             /\ unit' = FloatUnit("Matrix::inverse", AffineInt(a, b, c), r.ok, r.val)
             /\ thrown' = r.what
    /\ UNCHANGED renderVars

\* Transform<float>(m): m_{m}, inv_{m.inverse()}
NewOfFloat ==
    /\ unit.op = "none"
    /\ \E a \in AffineRows, b \in AffineRows, c \in AffineRows :
          \E r \in {inverse_gauss_jordan_N_float(AffineInt(a, b, c))} :
             /\ unit' = FloatUnit("Transform(m)", AffineInt(a, b, c), r.ok, r.val)
             /\ thrown' = r.what
    /\ UNCHANGED renderVars

\* Transform<float>::from_matrix_checked(m)
FromMatrixCheckedFloat ==
    /\ unit.op = "none"
    /\ \E a \in AffineRows, b \in AffineRows, c \in AffineRows :
          \E r \in {inverse_gauss_jordan_N_float(AffineInt(a, b, c))} :
             /\ unit' = FloatUnit("from_matrix_checked", AffineInt(a, b, c), r.ok, r.val)
             /\ thrown' = r.what
    /\ UNCHANGED renderVars

NextFloat == MatrixInverseFloat \/ NewOfFloat \/ FromMatrixCheckedFloat

FloatInverseSpec == InitFloat /\ [][NextFloat]_vars

\* the matrix without row 1 and column c
Minor(m, c) ==
    MkMat(Len(m) - 1, Len(m) - 1, LAMBDA i, j : m[i + 1][IF j < c THEN j ELSE j + 1])

\* the determinant of a matrix of integers, by expansion along row 1
RECURSIVE IntDet(_)
RECURSIVE IntDetSum(_, _)
IntDet(m) == IF Len(m) = 1 THEN m[1][1] ELSE IntDetSum(m, 1)
IntDetSum(m, c) ==
    IF c > Len(m) THEN 0
    ELSE (IF c % 2 = 1 THEN 1 ELSE -1) * m[1][c] * Let(Minor(m, c), LAMBDA mi : IntDet(mi))
         + IntDetSum(m, c + 1)

\* C16 as stated: the inverse of a singular matrix, asked for through
\* Matrix::inverse, Transform(m) or from_matrix_checked, throws
\* std::domain_error: no matrix is returned and no Transform is made.
C16_SingularThrows ==
    (unit.op # "none" /\ IntDet(unit.arg) = 0) =>
        (thrown = "domain_error" /\ ~unit.made /\ unit.inv = <<>>)

\* C16, the part that holds: a request that finds a pivot equal to zero
\* throws std::domain_error and returns nothing, every other request
\* returns a matrix of the size asked for, and no regular matrix throws
C16_ThrowReturnsNothing ==
    /\ thrown \in {NoThrow, "domain_error"}
    /\ thrown = "domain_error" <=> (unit.op # "none" /\ ~unit.made)
    /\ ~unit.made => unit.inv = <<>>
    /\ unit.made => Len(unit.inv) = Len(unit.arg)
    /\ (unit.op # "none" /\ IntDet(unit.arg) # 0) => unit.made

\* C16 witness: a singular matrix, none of its rows zero, found singular
C16_Witness ==
    /\ unit.op = "Transform(m)"
    /\ unit.arg[1] # unit.arg[2]
    /\ IntDet(unit.arg) = 0
    /\ thrown = "domain_error"
    /\ ~unit.made

\* ---------------------------------------------------------------------
\* LampPathSpec: trace_ray in scenes whose lanes start at an emitter
\* ---------------------------------------------------------------------
Green == <<R0, R1, R0>>

mGreenLight == emissive(Green, RInt(3))
mLampGlass == from_params(CZero, R0, RHalf, Red, RInt(2))
mLampRough == from_params(CZero, R1, R0, <<R1, RHalf, R0>>, RInt(3))
mLampTinted == from_params(CGrey(RHalf), R0, R0, Red, RInt(2))

\* lane 0: a mirror-smooth black emitter, a second emitter behind the
\* camera; lane 1: a black emitting glass in front of an emitter; lane 2:
\* an emitter with albedo 1/2; lane 3: a rough black emitter
SceneLamps(bg) ==
    BuildScene(bg,
        << SceneObject(Surface(10, {0}, Facing), mLight),
           SceneObject(Surface(-10, {0, 2, 3}, Backing), mGreenLight),
           SceneObject(Surface(10, {1}, Facing), mLampGlass),
           SceneObject(Surface(20, {1}, Facing), mGreenLight),
           SceneObject(Surface(10, {2}, Facing), mLampTinted),
           SceneObject(Surface(10, {3}, Facing), mLampRough) >>)

InitLamp ==
    /\ cfg \in {[IdleCfg EXCEPT !.renderer = r, !.max_depth = md] :
                    r \in {"pt", "simple"}, md \in 0..MaxDepth}
    /\ scene \in {SceneLamps(CZero), SceneLamps(CGrey(RHalf))}
    /\ out = IdleOut
    /\ writers = <<>>
    /\ pc = "off"
    /\ threads = <<>>
    /\ spawn_t = 0
    /\ y0 = 0
    /\ join_i = 0
    /\ unit = IdleUnit
    /\ thrown = NoThrow
    /\ scan \in {[ray |-> PrimaryRay(scene, x), done |-> FALSE] : x \in AllLanes}
    /\ path = [IdlePath EXCEPT !.pc = "call"]

LampPathSpec == InitLamp /\ [][NextPath]_vars

\* the objects the primary ray hits first all have zero albedo there
FirstHitBlack ==
    /\ Nearest(scene.objects, scan.ray) # {}
    /\ \A i \in Nearest(scene.objects, scan.ray) :
          MatAlbedo(scene.objects[i].mat, scan.ray.o.x) = CZero

\* the radiance R times the emission power P of every such object
FirstHitEmits(c) ==
    \A i \in Nearest(scene.objects, scan.ray) :
        c = CScale(MatRadiance(scene.objects[i].mat, scan.ray.o.x),
                   MatEmission(scene.objects[i].mat, scan.ray.o.x))

\* C17 as stated: for either renderer, a primary ray that first hits a
\* surface of zero albedo, radiance R and emission power P returns exactly
\* R x P, whatever the later bounces and the roulette do (the pixel is the
\* mean of its samples, each of them this value).
C17_EmitterExact ==
    (Returned /\ FirstHitBlack) => FirstHitEmits(path.L)

\* C17 amended: the same for RendererSimpleRT, and for RendererPathTracer
\* when max_depth >= 1; with max_depth = 0 the path tracer returns black
C17_EmitterExactIfDepth ==
    (Returned /\ FirstHitBlack) =>
        IF cfg.renderer = "pt" /\ cfg.max_depth = 0 THEN path.L = CZero
        ELSE FirstHitEmits(path.L)

\* C17 witness: the path tracer returned R x P = (2, 0, 0) after the path
\* went on from the emitter to further surfaces and reached the roulette
C17_Witness ==
    /\ Returned
    /\ FirstHitBlack
    /\ cfg.renderer = "pt"
    /\ path.queries >= RouletteDepth + 1
    /\ path.ev.kind = "roulette_stop"
    /\ path.L = <<RInt(2), R0, R0>>

\* ---------------------------------------------------------------------
\* MattePathSpec: RendererPathTracer on a scene holding one opaque,
\* non-emissive surface of material lambertian((0.5, 0.5, 0.5))
\* ---------------------------------------------------------------------
mMatte == lambertian(CGrey(RHalf))

\* the surface fills lanes 0 to 2 in front of the camera
SceneMatte(bg) == BuildScene(bg, << SceneObject(Surface(10, {0, 1, 2}, Facing), mMatte) >>)

MatteBackgrounds == {CZero, CGrey(RHalf), <<R0, RHalf, R1>>}

InitMatte ==
    /\ cfg \in {[IdleCfg EXCEPT !.renderer = "pt", !.max_depth = md] : md \in 0..MaxDepth}
    /\ scene \in {SceneMatte(bg) : bg \in MatteBackgrounds}
    /\ out = IdleOut
    /\ writers = <<>>
    /\ pc = "off"
    /\ threads = <<>>
    /\ spawn_t = 0
    /\ y0 = 0
    /\ join_i = 0
    /\ unit = IdleUnit
    /\ thrown = NoThrow
    /\ scan \in {[ray |-> PrimaryRay(scene, x), done |-> FALSE] : x \in AllLanes}
    /\ path = [IdlePath EXCEPT !.pc = "call"]

NextMatte == PathEnter \/ PathLoop

MattePathSpec == InitMatte /\ [][NextMatte]_vars

Positive(c) == RLt(R0, c[1]) /\ RLt(R0, c[2]) /\ RLt(R0, c[3])

\* C18 as stated: the path tracer returns a radiance positive in all three
\* channels for a primary ray that hits the lambertian surface, the diffuse
\* branch contributing it (max_depth lets the scattered ray be traced).
C18_MattePositive ==
    (Returned /\ ~PrimaryMisses /\ cfg.max_depth >= 2) => Positive(path.L)

\* C18, what the code does: no iteration takes the diffuse branch; the ray
\* is reflected specularly with throughput equal to the albedo, and the
\* radiance returned is the albedo times the background (black when the
\* loop ends before the reflected ray is traced)
C18_MatteReflectsBackground ==
    /\ path.ev.kind # "diffuse"
    /\ (Returned /\ ~PrimaryMisses) =>
          IF cfg.max_depth >= 2
          THEN path.L = hadamard(CGrey(RHalf), scene.background)
          ELSE path.L = CZero

\* C18 witness: a ray returned from the surface, reflected specularly into
\* a background that is not black
C18_Witness ==
    /\ Returned
    /\ ~PrimaryMisses
    /\ cfg.max_depth >= 2
    /\ path.queries = 2
    /\ path.ev.kind = "miss"
    /\ path.L = <<R0, Rat(1, 4), RHalf>>

\* ---------------------------------------------------------------------
\* MaterialSpec: a Material made by the constructor or a factory, then
\* changed by the set_*_property calls
\* ---------------------------------------------------------------------

\* Material::emissive(radiance): emission power 1
emissive_unit(radiance) ==
    [DefaultMaterial EXCEPT !.radiance = Uniform(radiance), !.emission = Uniform(R1)]

\* Material::glass(albedo, roughness, transparency, radiance, power)
glass_emissive(albedo, roughness, transparency, radiance, power) ==
    [glass(albedo, roughness, transparency) EXCEPT
        !.radiance = Uniform(radiance), !.emission = Uniform(clamp_nonneg(power))]

\* Material::from_params(albedo, roughness, transparency, radiance)
from_params_dark(albedo, roughness, transparency, radiance) ==
    [from_params(albedo, roughness, transparency, radiance, R0) EXCEPT !.emission = Uniform(R0)]

\* the scalars a caller passes: below, inside and above every range, and NaN
ScalarPool == {RInt(-1), RHalf, RInt(2), NaN}

ColourPool == {Red, CGrey(RHalf)}

\* the properties a caller installs: uniform ones and a checkerboard
ScalarProps == {Uniform(v) : v \in ScalarPool} \cup {<<Rat(1, 4), RInt(3)>>}

\* unit.m is the material, op the last call and arg its arguments
MaterialUnit(m, op, arg) == [m |-> m, op |-> op, arg |-> arg]

InitMaterial ==
    /\ InitRenderIdle
    /\ unit = MaterialUnit(DefaultMaterial, "Material", <<>>)
    /\ thrown = NoThrow

Lambertian ==
    /\ unit.op = "Material"
    /\ \E c \in ColourPool : unit' = MaterialUnit(lambertian(c), "lambertian", <<c>>)
    /\ UNCHANGED <<thrown, renderVars>>

Metal ==
    /\ unit.op = "Material"
    /\ \E c \in ColourPool, r \in ScalarPool :
          unit' = MaterialUnit(metal(c, r), "metal", <<c, r>>)
    /\ UNCHANGED <<thrown, renderVars>>

Emissive ==
    /\ unit.op = "Material"
    /\ \E c \in ColourPool :
          \/ unit' = MaterialUnit(emissive_unit(c), "emissive", <<c>>)
          \/ \E p \in ScalarPool : unit' = MaterialUnit(emissive(c, p), "emissive", <<c, p>>)
    /\ UNCHANGED <<thrown, renderVars>>

Glass ==
    /\ unit.op = "Material"
    /\ \E r \in ScalarPool, t \in ScalarPool :
          \/ unit' = MaterialUnit(glass(COne, r, t), "glass", <<COne, r, t>>)
          \/ \E p \in ScalarPool :
                unit' = MaterialUnit(glass_emissive(COne, r, t, Red, p), "glass",
                                     <<COne, r, t, Red, p>>)
    /\ UNCHANGED <<thrown, renderVars>>

FromParams ==
    /\ unit.op = "Material"
    /\ \E r \in ScalarPool, t \in ScalarPool :
          \/ unit' = MaterialUnit(from_params_dark(COne, r, t, Red), "from_params",
                                  <<COne, r, t, Red>>)
          \/ \E p \in ScalarPool :
                unit' = MaterialUnit(from_params(COne, r, t, Red, p), "from_params",
                                     <<COne, r, t, Red, p>>)
    /\ UNCHANGED <<thrown, renderVars>>

\* set_roughness_property, set_transparency_property, set_emission_property
\* and set_refractive_index_property: the pointer is replaced
SetProperty ==
    /\ \E p \in ScalarProps :
          \/ unit' = [unit EXCEPT !.m.roughness = p, !.op = "set_roughness_property",
                                  !.arg = <<p>>]
          \/ unit' = [unit EXCEPT !.m.transparency = p, !.op = "set_transparency_property",
                                  !.arg = <<p>>]
          \/ unit' = [unit EXCEPT !.m.emission = p, !.op = "set_emission_property",
                                  !.arg = <<p>>]
          \/ unit' = [unit EXCEPT !.m.ior = p, !.op = "set_refractive_index_property",
                                  !.arg = <<p>>]
    /\ UNCHANGED <<thrown, renderVars>>

\* set_albedo_property and set_radiance_property
SetColourProperty ==
    /\ \E c \in ColourPool :
          \/ unit' = [unit EXCEPT !.m.albedo = Uniform(c), !.op = "set_albedo_property",
                                  !.arg = <<c>>]
          \/ unit' = [unit EXCEPT !.m.radiance = Uniform(c), !.op = "set_radiance_property",
                                  !.arg = <<c>>]
    /\ UNCHANGED <<thrown, renderVars>>

NextMaterial ==
    \/ Lambertian \/ Metal \/ Emissive \/ Glass \/ FromParams
    \/ SetProperty \/ SetColourProperty

MaterialSpec == InitMaterial /\ [][NextMaterial]_vars

UVs == {0, 1}

\* C19 as stated: lambertian(albedo) has the given albedo, roughness 1 and
\* transparency 0.
C19_LambertianIsRough ==
    unit.op = "lambertian" =>
        \A uv \in UVs :
            /\ MatAlbedo(unit.m, uv) = unit.arg[1]
            /\ MatRoughness(unit.m, uv) = R1
            /\ MatTransparency(unit.m, uv) = R0

\* C19, what the code does: the given albedo, roughness 0, transparency 0,
\* no emission and refractive index 1
C19_LambertianIsSmooth ==
    unit.op = "lambertian" =>
        \A uv \in UVs :
            /\ MatAlbedo(unit.m, uv) = unit.arg[1]
            /\ MatRoughness(unit.m, uv) = R0
            /\ MatTransparency(unit.m, uv) = R0
            /\ MatEmission(unit.m, uv) = R0
            /\ MatRadiance(unit.m, uv) = CZero
            /\ MatRefractiveIndex(unit.m, uv) = R1

\* C19 witness: lambertian of red
C19_Witness ==
    /\ unit.op = "lambertian"
    /\ unit.arg = <<Red>>
    /\ MatAlbedo(unit.m, 0) = Red

InRange(v, lo, hi) == v # NaN /\ RLe(lo, v) /\ RLe(v, hi)
AtLeast(v, lo) == v # NaN /\ RLe(lo, v)

\* C20 as stated: whatever the factories were given and whatever the
\* installed properties supply, roughness and transparency are within
\* [0, 1], emission is >= 0 and refractive_index is >= 1 at every uv.
C20_AccessorsInRange ==
    \A uv \in UVs :
        /\ InRange(MatRoughness(unit.m, uv), R0, R1)
        /\ InRange(MatTransparency(unit.m, uv), R0, R1)
        /\ AtLeast(MatEmission(unit.m, uv), R0)
        /\ AtLeast(MatRefractiveIndex(unit.m, uv), R1)

\* C20, the part that holds: each accessor is in range at every uv where
\* the stored property is a number, and returns the NaN where it is a NaN
C20_NumbersInRange ==
    \A uv \in UVs :
        /\ IF Sample(unit.m.roughness, uv) = NaN THEN MatRoughness(unit.m, uv) = NaN
           ELSE InRange(MatRoughness(unit.m, uv), R0, R1)
        /\ IF Sample(unit.m.transparency, uv) = NaN THEN MatTransparency(unit.m, uv) = NaN
           ELSE InRange(MatTransparency(unit.m, uv), R0, R1)
        /\ IF Sample(unit.m.emission, uv) = NaN THEN MatEmission(unit.m, uv) = NaN
           ELSE AtLeast(MatEmission(unit.m, uv), R0)
        /\ IF Sample(unit.m.ior, uv) = NaN THEN MatRefractiveIndex(unit.m, uv) = NaN
           ELSE AtLeast(MatRefractiveIndex(unit.m, uv), R1)

\* C20 witness: every scalar property replaced by one out of range, the
\* accessors clamping each of them
C20_Witness ==
    /\ unit.m.roughness = Uniform(RInt(2))
    /\ unit.m.transparency = Uniform(RInt(-1))
    /\ unit.m.emission = Uniform(RInt(-1))
    /\ unit.m.ior = <<Rat(1, 4), RInt(3)>>
    /\ MatRoughness(unit.m, 0) = R1
    /\ MatTransparency(unit.m, 0) = R0
    /\ MatEmission(unit.m, 0) = R0
    /\ MatRefractiveIndex(unit.m, 0) = R1
    /\ MatRefractiveIndex(unit.m, 1) = RInt(3)

(***************************************************************************)
(* ResizeSpec: render is called once on a destination image the client     *)
(* already has.  The image before the call is any image of up to           *)
(* MaxWidth x MaxHeight red pixels, so that a pixel the call left as it    *)
(* found it differs from a pixel of a fresh image (black) and from a       *)
(* rendered one; unit keeps that image for the claims to compare with.     *)
(***************************************************************************)
DestImages == {resize(w, h, Red) : w \in 0..MaxWidth, h \in 0..MaxHeight}

InitResize ==
    /\ cfg \in {[renderer |-> r, hw |-> hw, width |-> w, height |-> h,
                 spp |-> 1, max_depth |-> IF r = "pt" THEN 1 ELSE 0,
                 seed |-> DefaultSeed] :
                    r \in {"pt", "simple"}, hw \in {0, MaxHw - 1},
                    w \in 0..MaxWidth, h \in 0..MaxHeight}
    /\ scene = SceneRough
    /\ out \in DestImages
    /\ writers = <<>>
    /\ pc = "idle"
    /\ threads = <<>>
    /\ spawn_t = 0
    /\ y0 = 0
    /\ join_i = 0
    /\ unit = [kind |-> "image", before |-> out]
    /\ thrown = NoThrow
    /\ scan = IdleScan
    /\ path = IdlePath

NextResize ==
    \/ RenderBegin
    \/ Spawn
    \/ Join
    \/ \E i \in 1..MaxThreads : Worker(i)

ResizeSpec == InitResize /\ [][NextResize]_vars

\* the destination had the requested dimensions when render was called
DestMatches == unit.before.w = cfg.width /\ unit.before.h = cfg.height
\* the destination has them now
OutAsRequested ==
    /\ out.w = cfg.width
    /\ out.h = cfg.height
    /\ Len(out.data) = cfg.width * cfg.height
\* some worker has written a pixel
SomeWritten == \E k \in Cells : writers[k] # {}
\* the cells of the image that changed in a step
ChangedCells == {k \in DOMAIN out.data : out'.data[k] # out.data[k]}

\* C21: once render is past its first statement the destination has exactly
\* the requested width and height, and keeps them until render returns; a
\* destination of other dimensions was resized (every pixel no worker has
\* written yet is the black fill), one of the requested dimensions was not
\* (every pixel no worker has written yet is the pixel the caller passed
\* in); and a step that writes a pixel finds the dimensions already as
\* requested, changes one cell at most and leaves the dimensions alone.
C21_ResizedBeforeWrite ==
    /\ [](pc # "idle" => OutAsRequested)
    /\ [](pc = "idle" => out = unit.before /\ ~SomeWritten)
    /\ [](pc # "idle" /\ ~DestMatches =>
            \A k \in Cells : writers[k] = {} => out.data[k] = CZero)
    /\ [](pc # "idle" /\ DestMatches =>
            \A k \in Cells : writers[k] = {} => out.data[k] = unit.before.data[k])
    /\ [][pc # "idle" /\ out' # out =>
            /\ OutAsRequested
            /\ out'.w = out.w /\ out'.h = out.h
            /\ Cardinality(ChangedCells) = 1
            /\ \A k \in ChangedCells : writers'[k] # {}]_vars

\* a render of a non-empty image into a non-empty destination of another
\* width has returned with every pixel written
C21_Witness ==
    /\ pc = "done"
    /\ unit.before.w # cfg.width
    /\ unit.before.w * unit.before.h > 0
    /\ cfg.width * cfg.height > 1
    /\ \A k \in Cells : writers[k] # {}

(***************************************************************************)
(* AABB<T> as the class stores it: the two corners min_ and max_, whose    *)
(* components are numbers, +inf, -inf or NaN.  The empty box is            *)
(* (+inf, +inf, +inf), (-inf, -inf, -inf) and empty() is computed from the *)
(* corners.  +inf is <<1, 0>>, -inf is <<-1, 0>> and NaN is <<0, 0>>.      *)
(***************************************************************************)
PosInf == <<1, 0>>
NegInf == <<-1, 0>>

\* a < b and a <= b of the floating-point type
XLt(a, b) ==
    /\ a # NaN /\ b # NaN /\ a # b
    /\ \/ a = NegInf
       \/ b = PosInf
       \/ a[2] # 0 /\ b[2] # 0 /\ RLt(a, b)
XLe(a, b) == a # NaN /\ b # NaN /\ (a = b \/ XLt(a, b))

\* AABB()
AABB_new == [min |-> <<PosInf, PosInf, PosInf>>, max |-> <<NegInf, NegInf, NegInf>>]
\* AABB(min_pt, max_pt)
AABB_of(min_pt, max_pt) == [min |-> min_pt, max |-> max_pt]

\* AABB::empty
AABB_empty(b) == ~(\A i \in 1..3 : XLe(b.min[i], b.max[i]))

\* AABB::clear
AABB_clear(b) == AABB_new

\* AABB::expand(const Vector<T,3>&)
AABB_expandMinOnly(b, p) ==
    IF AABB_empty(b) THEN [min |-> p, max |-> p]
    ELSE [min |-> Tup([i \in 1..3 |-> IF XLt(p[i], b.min[i]) THEN p[i] ELSE b.min[i]], 3),
          max |-> b.max]
AABB_expand(b, p) ==
    IF AABB_empty(b) THEN [min |-> p, max |-> p]
    ELSE [min |-> Tup([i \in 1..3 |-> IF XLt(p[i], b.min[i]) THEN p[i] ELSE b.min[i]], 3),
          max |-> Tup([i \in 1..3 |-> IF XLt(b.max[i], p[i]) THEN p[i] ELSE b.max[i]], 3)]

\* AABB::expand(const AABB&)
AABB_expand_box(b, o) ==
    IF AABB_empty(o) THEN b
    ELSE IF AABB_empty(b) THEN [min |-> o.min, max |-> o.max]
    ELSE [min |-> Tup([i \in 1..3 |-> IF XLt(o.min[i], b.min[i]) THEN o.min[i] ELSE b.min[i]], 3),
          max |-> Tup([i \in 1..3 |-> IF XLt(b.max[i], o.max[i]) THEN o.max[i] ELSE b.max[i]], 3)]

\* AABB::contains(const Vector<T,3>&)
AABB_contains(b, p) ==
    /\ ~AABB_empty(b)
    /\ \A i \in 1..3 : XLe(b.min[i], p[i]) /\ XLe(p[i], b.max[i])

\* AABB::contains(const AABB&)
AABB_contains_box(b, o) ==
    /\ ~AABB_empty(b) /\ ~AABB_empty(o)
    /\ \A i \in 1..3 : XLe(b.min[i], o.min[i]) /\ XLe(o.max[i], b.max[i])

(***************************************************************************)
(* AabbSpec: a default-constructed box, then up to MaxBoxOps calls of      *)
(* expand(point), expand(box) and clear.  unit remembers the points and    *)
(* the boxes handed to expand since the last clear.                        *)
(***************************************************************************)
MaxBoxOps == 3

\* points with finite and infinite coordinates, and one with a NaN
BoxPoints ==
    {V3(1, 2, 3), V3(-1, 0, 5), V3(0, 0, 0), <<RHalf, RInt(-2), RInt(3)>>,
     <<PosInf, R0, NegInf>>, <<NaN, R1, R1>>}

\* boxes: regular, a single point, unbounded, the empty box, and two whose
\* corners are out of order on one axis (empty by empty())
BoxArgs ==
    {AABB_of(V3(0, 0, 0), V3(1, 1, 1)),
     AABB_of(<<RHalf, RHalf, RHalf>>, V3(2, 2, 2)),
     AABB_of(V3(-3, 4, 0), V3(-3, 4, 0)),
     AABB_of(<<NegInf, R0, R0>>, <<R0, PosInf, R0>>),
     AABB_new,
     AABB_of(V3(0, 0, 2), V3(9, 9, 1)),
     AABB_of(<<NaN, R0, R0>>, V3(7, 7, 7))}

IsNumeric(p) == \A i \in 1..3 : p[i] # NaN

AabbUnit(box, op, arg, pts, boxes, ops) ==
    [kind |-> "aabb", box |-> box, op |-> op, arg |-> arg, pts |-> pts, boxes |-> boxes,
     ops |-> ops]

InitAabb ==
    /\ InitRenderIdle
    /\ unit = AabbUnit(AABB_new, "new", <<>>, {}, {}, 0)
    /\ thrown = NoThrow

ExpandPoint ==
    /\ unit.ops < MaxBoxOps
    /\ \E p \in BoxPoints :
          unit' = AabbUnit(AABB_expand(unit.box, p), "expand", p,
                           unit.pts \union {p}, unit.boxes, unit.ops + 1)
    /\ UNCHANGED <<renderVars, thrown>>

ExpandBox ==
    /\ unit.ops < MaxBoxOps
    /\ \E o \in BoxArgs :
          unit' = AabbUnit(AABB_expand_box(unit.box, o), "expand_box", o,
                           unit.pts, unit.boxes \union {o}, unit.ops + 1)
    /\ UNCHANGED <<renderVars, thrown>>

Clear ==
    /\ unit.ops < MaxBoxOps
    /\ unit.op # "clear"
    /\ unit' = AabbUnit(AABB_clear(unit.box), "clear", <<>>, {}, {}, unit.ops + 1)
    /\ UNCHANGED <<renderVars, thrown>>

NextAabb ==
    \/ ExpandPoint
    \/ ExpandBox
    \/ Clear

AabbSpec == InitAabb /\ [][NextAabb]_vars

\* what has been expanded into the box since the last clear and can be
\* contained: the points without a NaN and the boxes that are not empty
HeldPoints == {p \in unit.pts : IsNumeric(p)}
HeldBoxes == {o \in unit.boxes : ~AABB_empty(o)}

\* C22: the box is empty (and then in the representation of an empty box
\* nothing was expanded into since the last clear) or its corners are in
\* order on the three axes; it contains every point and every non-empty box
\* expanded into it since the last clear; nothing else made it larger (each
\* face passes through a point or a non-empty box given to expand); and
\* expand by an empty box leaves the corners as they were.
C22_BoxHoldsExpanded ==
    /\ [](/\ AABB_empty(unit.box) \/ \A i \in 1..3 : XLe(unit.box.min[i], unit.box.max[i])
          /\ AABB_empty(unit.box) <=> (HeldPoints = {} /\ HeldBoxes = {})
          /\ \A p \in HeldPoints : AABB_contains(unit.box, p)
          /\ \A o \in HeldBoxes : AABB_contains_box(unit.box, o)
          /\ ~AABB_empty(unit.box) =>
                \A i \in 1..3 :
                   /\ unit.box.min[i] \in {p[i] : p \in unit.pts} \union {o.min[i] : o \in HeldBoxes}
                   /\ unit.box.max[i] \in {p[i] : p \in unit.pts} \union {o.max[i] : o \in HeldBoxes})
    /\ [][unit'.op = "expand_box" /\ AABB_empty(unit'.arg) => unit'.box = unit.box]_vars

\* a box that holds one point and one box after MaxBoxOps calls, the last
\* of them an expand(point), with faces through the point
C22_Witness ==
    /\ unit.kind = "aabb"
    /\ unit.ops = MaxBoxOps
    /\ unit.op = "expand"
    /\ Cardinality(HeldPoints) = 1
    /\ Cardinality(HeldBoxes) = 1
    /\ unit.box.min # unit.box.max
    /\ \E p \in HeldPoints : \E i, j \in 1..3 : unit.box.min[i] = p[i] /\ unit.box.max[j] = p[j]

(***************************************************************************)
(* AABB::intersect on the stored corners, for rays in space.  The corners, *)
(* the origin and the direction are finite here; tmin and tmax may be      *)
(* infinite.                                                               *)
(***************************************************************************)
\* Ray<T>{origin, direction, tmin, tmax} with vectors
Ray3(o, d, tmin, tmax) == [o |-> o, d |-> d, tmin |-> tmin, tmax |-> tmax]

\* Ray::is_valid
is_valid(ray) == ~XLt(ray.tmax, ray.tmin)

\* one iteration of the loop over the axes: the running interval t after
\* axis i, or a miss
SlabAxisNoSwap(b, ray, i, t) ==
    LET di == ray.d[i]
        oi == ray.o[i]
    IN  IF di = R0
        THEN IF XLt(oi, b.min[i]) \/ XLt(b.max[i], oi) THEN [miss |-> TRUE, t0 |-> t[1], t1 |-> t[2]]
             ELSE [miss |-> FALSE, t0 |-> t[1], t1 |-> t[2]]
        ELSE LET invD == RDiv(R1, di)
                 t_near == RMul(RSub(b.min[i], oi), invD)
                 t_far == RMul(RSub(b.max[i], oi), invD)
                 t0 == IF XLt(t[1], t_near) THEN t_near ELSE t[1]
                 t1 == IF XLt(t_far, t[2]) THEN t_far ELSE t[2]
             IN  [miss |-> XLt(t1, t0), t0 |-> t0, t1 |-> t1]
SlabAxis(b, ray, i, t) ==
    LET di == ray.d[i]
        oi == ray.o[i]
    IN  IF di = R0
        THEN IF XLt(oi, b.min[i]) \/ XLt(b.max[i], oi) THEN [miss |-> TRUE, t0 |-> t[1], t1 |-> t[2]]
             ELSE [miss |-> FALSE, t0 |-> t[1], t1 |-> t[2]]
        ELSE LET invD == RDiv(R1, di)
                 a == RMul(RSub(b.min[i], oi), invD)
                 c == RMul(RSub(b.max[i], oi), invD)
                 t_near == IF XLt(c, a) THEN c ELSE a
                 t_far == IF XLt(c, a) THEN a ELSE c
                 t0 == IF XLt(t[1], t_near) THEN t_near ELSE t[1]
                 t1 == IF XLt(t_far, t[2]) THEN t_far ELSE t[2]
             IN  [miss |-> XLt(t1, t0), t0 |-> t0, t1 |-> t1]

RECURSIVE SlabLoop(_, _, _, _)
SlabLoop(b, ray, i, t) ==
    IF i > 3 THEN [hit |-> TRUE, t_near |-> t[1], t_far |-> t[2]]
    ELSE Let(SlabAxis(b, ray, i, t), LAMBDA s :
            IF s.miss THEN NoHit ELSE SlabLoop(b, ray, i + 1, <<s.t0, s.t1>>))

\* AABB::intersect
AABB_intersect(b, ray) ==
    IF AABB_empty(b) THEN NoHit ELSE SlabLoop(b, ray, 1, <<ray.tmin, ray.tmax>>)

(***************************************************************************)
(* SlabSpec: intersect is called with boxes and rays of the pools.         *)
(***************************************************************************)
SlabBoxes ==
    {AABB_of(V3(-1, -1, -1), V3(1, 1, 1)),
     AABB_of(V3(0, 0, 0), V3(4, 2, 6)),
     AABB_of(V3(-3, 4, 0), V3(-3, 4, 0)),
     AABB_new}

SlabOrigins == {V3(0, 0, 0), V3(0, 0, -5), V3(-5, 2, 0), V3(1, 1, 3), <<RHalf, RHalf, RHalf>>}

SlabDirections == {V3(0, 0, 1), V3(0, 1, 0), V3(1, 0, 0), V3(-1, 2, 0), V3(1, -1, -3), V3(0, 0, 0)}

\* [0, inf) of the default ray, the test's [0, 100], a camera's
\* [near, far] = [0.1, 1000], ranges around, before and beyond the origin,
\* and one with tmax < tmin
SlabRanges ==
    {<<R0, PosInf>>, <<R0, RInt(100)>>, <<Rat(1, 10), RInt(1000)>>, <<RInt(-5), RInt(5)>>,
     <<NegInf, PosInf>>, <<RInt(-2), RInt(-1)>>, <<RInt(7), RInt(9)>>, <<R1, R0>>}

InitSlab ==
    /\ InitRenderIdle
    /\ unit = IdleUnit
    /\ thrown = NoThrow

Intersect ==
    /\ unit = IdleUnit
    /\ \E b \in SlabBoxes, o \in SlabOrigins, d \in SlabDirections, r \in SlabRanges :
          \E ray \in {Ray3(o, d, r[1], r[2])} :
             unit' = [kind |-> "slab", box |-> b, ray |-> ray, res |-> AABB_intersect(b, ray)]
    /\ UNCHANGED <<renderVars, thrown>>

SlabSpec == InitSlab /\ [][Intersect]_vars

\* the origin lies strictly inside the box
StrictlyInside(b, p) ==
    /\ ~AABB_empty(b)
    /\ \A i \in 1..3 : XLt(b.min[i], p[i]) /\ XLt(p[i], b.max[i])

\* the call the claim is about: a ray with a non-zero direction and a valid
\* range from strictly inside a non-empty box
InsideCall ==
    /\ unit.kind = "slab"
    /\ StrictlyInside(unit.box, unit.ray.o)
    /\ unit.ray.d # V3(0, 0, 0)
    /\ is_valid(unit.ray)

\* the parameters at which the ray leaves the box and at which the line
\* behind the origin entered it
ExitT(b, ray) ==
    SlabLoop(b, Ray3(ray.o, ray.d, NegInf, PosInf), 1, <<NegInf, PosInf>>)

\* C23 as stated, for the ranges in front of the origin (0 <= tmin <= tmax,
\* 0 < tmax): such a call returns an interval with t_near <= 0 < t_far.
C23_InsideStraddlesOrigin ==
    InsideCall /\ XLe(R0, unit.ray.tmin) /\ XLt(R0, unit.ray.tmax) =>
                  /\ unit.res.hit
                  /\ XLe(unit.res.t_near, R0)
                  /\ XLt(R0, unit.res.t_far)

\* C23, what holds instead: such a call returns the slab interval clipped to
\* [tmin, tmax]: an interval with t_near <= 0 < t_far when tmin <= 0 < tmax;
\* when tmin > 0 either the interval [tmin, min(tmax, exit)], whose t_near
\* is positive, or nothing when tmin lies beyond the exit; and nothing or an
\* interval with t_far <= 0 when tmax <= 0.
C23_InsideClippedToRange ==
    InsideCall =>
       Let(ExitT(unit.box, unit.ray), LAMBDA e :
          /\ e.hit /\ XLt(e.t_near, R0) /\ XLt(R0, e.t_far)
          /\ XLe(unit.ray.tmin, R0) /\ XLt(R0, unit.ray.tmax) =>
                /\ unit.res.hit
                /\ XLe(unit.res.t_near, R0)
                /\ XLt(R0, unit.res.t_far)
          /\ XLt(R0, unit.ray.tmin) =>
                /\ unit.res.hit <=> XLe(unit.ray.tmin, e.t_far)
                /\ unit.res.hit =>
                      /\ unit.res.t_near = unit.ray.tmin
                      /\ unit.res.t_far = (IF XLt(e.t_far, unit.ray.tmax) THEN e.t_far ELSE unit.ray.tmax)
          /\ XLe(unit.ray.tmax, R0) =>
                /\ unit.res.hit <=> XLe(e.t_near, unit.ray.tmax)
                /\ unit.res.hit => unit.res.t_far = unit.ray.tmax)

\* a ray from strictly inside, against an axis, with a range around the
\* origin that ends before the exit on one side
C23_Witness ==
    /\ InsideCall
    /\ unit.ray.tmin = RInt(-5) /\ unit.ray.tmax = RInt(5)
    /\ unit.ray.d = V3(-1, 2, 0)
    /\ unit.res.hit
    /\ XLt(unit.ray.tmin, unit.res.t_near) /\ XLt(unit.res.t_near, R0)
    /\ XLt(R0, unit.res.t_far) /\ XLt(unit.res.t_far, unit.ray.tmax)

(***************************************************************************)
(* GlowPathSpec: path_trace_ in scenes whose surfaces emit and absorb, so  *)
(* that a path arrives at an emitter with a throughput other than 1 and    *)
(* the roulette of depth >= 3 can end it there.                            *)
(***************************************************************************)
mGlowRed(a) == from_params(CGrey(a), R0, R0, Red, RInt(2))
mGlowPatch == [from_params(<<R1, RHalf, RHalf>>, R0, R0, Green, R1) EXCEPT !.radiance = <<Green, COne>>]
mGlowGlass == glass_emissive(CGrey(RHalf), R0, RHalf, <<R0, R0, R1>>, RHalf)
mGlowRough == from_params(CGrey(RHalf), RHalf, R0, Red, R1)

GlowCorridor(a) ==
    BuildScene(<<R0, RHalf, R1>>,
        << SceneObject(Surface(10, AllLanes, Facing), mGlowRed(a)),
           SceneObject(Surface(-10, AllLanes, Backing), mGlowPatch) >>)

GlowGlass ==
    BuildScene(CGrey(RHalf),
        << SceneObject(Surface(10, {0, 1}, Facing), mGlowGlass),
           SceneObject(Surface(20, {0, 1}, Facing), mGlowRough),
           SceneObject(Surface(-10, {0, 1}, Backing), mGlowRed(RHalf)) >>)

GlowScenes == {GlowCorridor(RHalf), GlowCorridor(Rat(1, 10)), GlowGlass, SceneRough}

InitGlow ==
    /\ cfg \in {[IdleCfg EXCEPT !.max_depth = md] : md \in 0..MaxDepth}
    /\ scene \in GlowScenes
    /\ out = IdleOut
    /\ writers = <<>>
    /\ pc = "off"
    /\ threads = <<>>
    /\ spawn_t = 0
    /\ y0 = 0
    /\ join_i = 0
    /\ unit = IdleUnit
    /\ thrown = NoThrow
    /\ scan \in {[ray |-> PrimaryRay(scene, x), done |-> FALSE] : x \in {0, 1, 3}}
    /\ path = [IdlePath EXCEPT !.pc = "call"]

GlowPathSpec == InitGlow /\ [][NextDark]_vars

\* radiance(uv) * emission(uv) of the surface the ray of the current state
\* hits first
EmittedAtHit ==
    LET hit == NearestHit(scene.objects, path.ray)
        m == scene.objects[hit.best_m].mat
    IN  CScale(MatRadiance(m, hit.best_uv), MatEmission(m, hit.best_uv))

\* C24: every iteration that finds a hit adds to L the hit surface's
\* radiance(uv) * emission(uv) weighted by the throughput beta as it stood
\* when the iteration began, and nothing else: whether the roulette then
\* ends the path (the throughput is left alone) or the bounce goes on with
\* a rescaled and tinted throughput.
C24_EmissionBeforeRoulette ==
    [][HitIteration =>
          /\ path'.L = CAdd(path.L, hadamard(path.beta, EmittedAtHit))
          /\ path'.ev.beta_in = path.beta
          /\ path'.ev.kind = "roulette_stop" => path'.pc = "done" /\ path'.beta = path.beta]_vars

\* a path ended by the roulette at an emitter it reached with a throughput
\* below 1, whose radiance includes that emitter's share
C24_Witness ==
    /\ path.pc = "done"
    /\ path.ev.kind = "roulette_stop"
    /\ path.depth >= 3
    /\ \A i \in 1..3 : RLt(R0, path.ev.beta_in[i]) /\ RLt(path.ev.beta_in[i], R1)
    /\ MatEmission(scene.objects[path.ev.hit_m].mat, 0) # R0
    /\ RLt(R1, path.L[1])

(***************************************************************************)
(* BounceSpec: path_trace_ through stacks of transparent surfaces, the     *)
(* uniform draws of every iteration kept in unit next to the state the     *)
(* iteration started from.                                                 *)
(***************************************************************************)
TiltedBack == <<1, 2>>
Grazing == <<-4, 5>>

mGlassClear == glass(COne, R0, R1)
mGlassIndexOne == [glass(CGrey(RHalf), R0, R1) EXCEPT !.ior = Uniform(R1)]
mGlassFrosted == glass(<<R1, RHalf, RHalf>>, RHalf, RHalf)
mGlassFaint == [glass(COne, R1, ProbFloor) EXCEPT !.ior = Uniform(RInt(2))]

\* lane 0: a pane met head-on, then one left through a tilted face (total
\* internal reflection), then a grazing face without index contrast (a
\* reflectance below the floor); lane 1: frosted and faint glass in front
\* of an opaque wall; lane 2: the tilted face met from outside
GlassStack ==
    BuildScene(<<R0, RHalf, R1>>,
        << SceneObject(Surface(10, {0}, Facing), mGlassClear),
           SceneObject(Surface(20, {0, 2}, TiltedBack), mGlassHalf),
           SceneObject(Surface(30, {0, 2}, Grazing), mGlassIndexOne),
           SceneObject(Surface(10, {1}, Tilted), mGlassFrosted),
           SceneObject(Surface(20, {1}, Facing), mGlassFaint),
           SceneObject(Surface(40, {1}, Facing), mRough),
           SceneObject(Surface(-10, AllLanes, Backing), mMirrorHalf) >>)

BounceScenes == {GlassStack, SceneGlass}

InitBounce ==
    /\ cfg \in {[IdleCfg EXCEPT !.max_depth = md] : md \in {1, RouletteDepth + 1}}
    /\ scene \in BounceScenes
    /\ out = IdleOut
    /\ writers = <<>>
    /\ pc = "off"
    /\ threads = <<>>
    /\ spawn_t = 0
    /\ y0 = 0
    /\ join_i = 0
    /\ unit = IdleUnit
    /\ thrown = NoThrow
    /\ scan \in {[ray |-> PrimaryRay(scene, x), done |-> FALSE] : x \in {0, 1, 2}}
    /\ path = [IdlePath EXCEPT !.pc = "call"]

\* one iteration of the loop of path_trace_
PathLoopDrawn ==
    /\ path.pc = "loop"
    /\ \E us \in DrawSeqs[MayDraw(scene, path)] :
          /\ path' = PathIter(scene, path, us, cfg.max_depth)
          /\ unit' = [kind |-> "bounce", us |-> us, before |-> path]
    /\ UNCHANGED <<cfg, scene, out, writers, pc, threads, spawn_t, y0, join_i, scan, thrown>>

NextBounce == PathEnter \/ PathLoopDrawn

BounceSpec == InitBounce /\ [][NextBounce]_vars

\* the quantities of the iteration that led to the current state: the hit,
\* its material terms, the cosine to the oriented normal, the indices, the
\* Fresnel reflectance, whether Snell's law has no solution, the throughput
\* b entering the sampling, the draws n the sampling consumed and the first
\* of them, xi
BounceTerms ==
    LET st == unit.before
        hit == NearestHit(scene.objects, st.ray)
        mt == MaterialTerms(scene.objects[hit.best_m].mat, hit.best_uv)
        c == Dot(st.ray.d, hit.best_n)
        entering == RLt(c, R0)
        cos == RClamp(RAbs(c), R0, R1)
        eta_i == IF entering THEN R1 ELSE mt.ior
        eta_t == IF entering THEN mt.ior ELSE R1
        eta == RDiv(eta_i, eta_t)
        k0 == IF path.ev.rr THEN 1 ELSE 0
    IN  [albedo |-> mt.albedo, transparency |-> mt.transparency,
         tir |-> RLt(R1, RMul(RMul(eta, eta), RSub(R1, RMul(cos, cos)))),
         R |-> schlick(cos, eta_i, eta_t),
         b |-> path.ev.beta_rr,
         n |-> path.draws - st.draws - k0,
         xi |-> Uni(unit.us[k0 + 1])]

\* C25: an iteration that samples a direction at a hit with transparency > 0
\* takes one of the three dielectric branches and never the opaque ones:
\* under total internal reflection the reflection with beta * albedo and no
\* draw; otherwise one draw xi, the reflection with
\* beta * albedo / max(R, 1e-3) exactly when xi < R and the refraction with
\* beta * albedo * transparency / max(1 - R, 1e-3) when not.  With
\* transparency 0 the branch is an opaque one.
C25_DielectricBranches ==
    (unit.kind = "bounce" /\ Scattered) =>
       Let(BounceTerms, LAMBDA t :
          /\ RLt(R0, t.transparency) <=> path.ev.kind \in {"tir", "reflect", "refract"}
          /\ RLt(R0, t.transparency) =>
                IF t.tir
                THEN /\ path.ev.kind = "tir"
                     /\ t.n = 0
                     /\ path.beta = hadamard(t.b, t.albedo)
                ELSE /\ t.n = 1
                     /\ IF RLt(t.xi, t.R)
                        THEN /\ path.ev.kind = "reflect"
                             /\ path.beta = CDivS(hadamard(t.b, t.albedo), RMax(t.R, ProbFloor))
                        ELSE /\ path.ev.kind = "refract"
                             /\ path.beta = CDivS(CScale(hadamard(t.b, t.albedo), t.transparency),
                                                  RMax(RSub(R1, t.R), ProbFloor)))

\* a total internal reflection after the roulette was played, without a
\* draw of its own
C25_Witness ==
    /\ unit.kind = "bounce"
    /\ path.ev.kind = "tir"
    /\ path.ev.rr
    /\ path.draws = unit.before.draws + 1
    /\ path.beta # path.ev.beta_rr

\* render was asked for an image without pixels
ZeroSize == cfg.width = 0 \/ cfg.height = 0

\* C26: a render asked for width 0 or height 0 goes from its call straight
\* to its return: it never is in the spawn or the join loop, creates no
\* worker, writes no pixel and leaves the destination with the requested
\* dimensions and no pixel; and whenever render is in the spawn or the join
\* loop the thread count the rows are divided by is at least 1.
C26_ZeroSizeReturnsEarly ==
    /\ [](ZeroSize =>
            /\ pc \in {"idle", "done"}
            /\ threads = <<>> /\ spawn_t = 0 /\ y0 = 0
            /\ ~SomeWritten
            /\ pc = "done" => out = [w |-> cfg.width, h |-> cfg.height, data |-> <<>>])
    /\ [](Rendering => ThreadCount(cfg) >= 1 /\ ~ZeroSize)
    /\ [][ZeroSize /\ pc = "idle" /\ pc' # pc => pc' = "done"]_vars

\* a render of height 0 (the thread count would be 0) into a destination
\* that held pixels has returned
C26_Witness ==
    /\ pc = "done"
    /\ cfg.height = 0 /\ cfg.width > 0 /\ cfg.hw > 0
    /\ unit.kind = "image"
    /\ Len(unit.before.data) > 0
    /\ out.data = <<>>

(***************************************************************************)
(* Mesh<T> and the SceneObjects that share it.  A mesh is its vertex list  *)
(* and its triangle list (indices from 0, as in the source).  A            *)
(* SceneObject holds a shared pointer to the mesh: the geometry it sees is *)
(* the mesh as it is now, its cached world box is what update_aabb last    *)
(* stored.                                                                 *)
(***************************************************************************)
\* Mesh()
MeshNew == [vertices |-> <<>>, tris |-> <<>>]

\* Mesh::add_vertex (returns vertices_.size() - 1)
add_vertex(mesh, p) == [mesh EXCEPT !.vertices = Append(@, p)]

\* Mesh::add_triangle
add_triangle(mesh, i0, i1, i2) == [mesh EXCEPT !.tris = Append(@, <<i0, i1, i2>>)]

\* Mesh::vertex_count
vertex_count(mesh) == Len(mesh.vertices)

\* Mesh::aabb: box.expand(v) over the vertices
RECURSIVE MeshAabbLoop(_, _, _)
MeshAabbLoop(box, vs, i) ==
    IF i > Len(vs) THEN box
    ELSE Let(expand(box, vs[i]), LAMBDA b : MeshAabbLoop(b, vs, i + 1))
MeshAabb(mesh) == MeshAabbLoop(EmptyBox3, mesh.vertices, 1)

\* the geometry behind the pointer geom_ of an object that shares the mesh
MeshGeom(mesh) == Geom3(MeshAabb(mesh))
Pointee(o, mesh) == [o EXCEPT !.geom = MeshGeom(mesh)]

\* Mesh::intersect reads vertices_[tri.i0], vertices_[tri.i1] and
\* vertices_[tri.i2] of every stored triangle, unchecked
MeshReads(mesh) == UNION {{mesh.tris[k][1], mesh.tris[k][2], mesh.tris[k][3]} : k \in DOMAIN mesh.tris}
ReadsOutside(mesh) == \E i \in MeshReads(mesh) : i >= vertex_count(mesh)

(***************************************************************************)
(* MeshSpec: a client builds a mesh, may construct a SceneObject on it at  *)
(* any time, add a copy of the object to a scene (Scene::add_object), and  *)
(* go on adding vertices and triangles; it may set the transform of either *)
(* object, call update_aabb on it, and intersect the mesh.  objs[1] is the *)
(* client's object and objs[2] the scene's copy; seen[i] is the geometry   *)
(* as it was when objs[i] last computed its world box; fits tells whether  *)
(* every add_triangle so far was given indices of vertices already added.  *)
(***************************************************************************)
MaxMeshOps == 4

MeshPoints == {V3(1, 0, 0), V3(5, 1, -2)}
MeshTriangles == {<<0, 1, 2>>, <<0, 3, 1>>}
MeshXfs == {TransformDefault, from_trs(V3(3, -2, 1), QuatTilt, V3(2, 1, 3))}

MeshUnit(mesh, objs, seen, fits, op, res, ops) ==
    [kind |-> "mesh", mesh |-> mesh, objs |-> objs, seen |-> seen, fits |-> fits,
     op |-> op, res |-> res, ops |-> ops]

InitMesh ==
    /\ InitRenderIdle
    /\ unit = MeshUnit(MeshNew, <<>>, <<>>, TRUE, "new", "none", 0)
    /\ thrown = NoThrow

AddVertex ==
    /\ unit.ops < MaxMeshOps
    /\ \E p \in MeshPoints :
          \E mesh \in {add_vertex(unit.mesh, p)} :
             unit' = MeshUnit(mesh, [i \in DOMAIN unit.objs |-> Pointee(unit.objs[i], mesh)],
                              unit.seen, unit.fits, "add_vertex", "none", unit.ops + 1)
    /\ UNCHANGED <<renderVars, thrown>>

AddTriangle ==
    /\ unit.ops < MaxMeshOps
    /\ \E t \in MeshTriangles :
          \E mesh \in {add_triangle(unit.mesh, t[1], t[2], t[3])} :
             unit' = MeshUnit(mesh, [i \in DOMAIN unit.objs |-> Pointee(unit.objs[i], mesh)],
                              unit.seen,
                              unit.fits /\ \A k \in 1..3 : t[k] < vertex_count(unit.mesh),
                              "add_triangle", "none", unit.ops + 1)
    /\ UNCHANGED <<renderVars, thrown>>

\* SceneObject(mesh, material, xform)
NewObject ==
    /\ unit.ops < MaxMeshOps
    /\ unit.objs = <<>>
    /\ \E x \in MeshXfs :
          unit' = MeshUnit(unit.mesh, <<SceneObjectOf(MeshGeom(unit.mesh), DefaultMaterial, x)>>,
                           <<MeshGeom(unit.mesh)>>, unit.fits, "construct", "none", unit.ops + 1)
    /\ UNCHANGED <<renderVars, thrown>>

\* Scene::add_object(const SceneObject&): the scene holds a copy
AddObject ==
    /\ unit.ops < MaxMeshOps
    /\ Len(unit.objs) = 1
    /\ unit' = MeshUnit(unit.mesh, Append(unit.objs, unit.objs[1]), Append(unit.seen, unit.seen[1]),
                        unit.fits, "add_object", "none", unit.ops + 1)
    /\ UNCHANGED <<renderVars, thrown>>

\* SceneObject::set_transform on the client's object or on the scene's
ObjSetTransform ==
    /\ unit.ops < MaxMeshOps
    /\ \E i \in DOMAIN unit.objs, x \in MeshXfs :
          /\ x # unit.objs[i].xf
          /\ unit' = MeshUnit(unit.mesh, [unit.objs EXCEPT ![i] = set_transform(@, x)],
                              [unit.seen EXCEPT ![i] = MeshGeom(unit.mesh)],
                              unit.fits, "set_transform", "none", unit.ops + 1)
    /\ UNCHANGED <<renderVars, thrown>>

\* SceneObject::update_aabb called by the client
ObjUpdateAabb ==
    /\ unit.ops < MaxMeshOps
    /\ \E i \in DOMAIN unit.objs :
          unit' = MeshUnit(unit.mesh, [unit.objs EXCEPT ![i] = update_aabb_world(@)],
                           [unit.seen EXCEPT ![i] = MeshGeom(unit.mesh)],
                           unit.fits, "update_aabb", "none", unit.ops + 1)
    /\ UNCHANGED <<renderVars, thrown>>

\* Mesh::intersect: a read outside the vertex list is undefined behaviour,
\* after which the call may return anything or not return
MeshIntersect ==
    /\ unit.ops < MaxMeshOps
    /\ unit.mesh.tris # <<>>
    /\ \E r \in IF ReadsOutside(unit.mesh) THEN {"undefined: returned", "undefined: crashed"}
                ELSE {"returned"} :
          unit' = MeshUnit(unit.mesh, unit.objs, unit.seen, unit.fits, "intersect", r, unit.ops + 1)
    /\ UNCHANGED <<renderVars, thrown>>

NextMesh ==
    \/ AddVertex
    \/ AddTriangle
    \/ NewObject
    \/ AddObject
    \/ ObjSetTransform
    \/ ObjUpdateAabb
    \/ MeshIntersect

MeshSpec == InitMesh /\ [][NextMesh]_vars

\* C27 as stated: the cached world box of every object on the mesh is the
\* box of the eight transformed corners of the mesh's current local box
C27_WorldBoxFollowsMesh ==
    unit.kind = "mesh" =>
       \A i \in DOMAIN unit.objs :
          IsWorldBox(unit.objs[i].aabb_world, MeshGeom(unit.mesh), unit.objs[i].xf.m)

\* C27, what the code does: the cached world box is the box of the mesh as
\* it was when the object was constructed, copied from a fresh object, given
\* a transform or told to update_aabb, whatever was added to the mesh since
C27_WorldBoxOfLastUpdate ==
    unit.kind = "mesh" =>
       \A i \in DOMAIN unit.objs :
          /\ unit.objs[i].geom = MeshGeom(unit.mesh)
          /\ IsWorldBox(unit.objs[i].aabb_world, unit.seen[i], unit.objs[i].xf.m)

\* a vertex was added outside the box the scene's copy had cached
C27_Witness ==
    /\ unit.kind = "mesh"
    /\ unit.op = "add_vertex"
    /\ Len(unit.objs) = 2
    /\ ~unit.seen[2].box.empty
    /\ unit.seen[2] # MeshGeom(unit.mesh)
    /\ unit.objs[2].aabb_world = unit.objs[1].aabb_world

\* C28 as stated: every stored triangle's three indices are smaller than
\* vertex_count(), so that Mesh::intersect reads inside the vertex list
C28_IndicesInRange ==
    unit.kind = "mesh" =>
       /\ ~ReadsOutside(unit.mesh)
       /\ unit.op = "intersect" => unit.res = "returned"

\* C28, what the code does: add_triangle stores the indices it is given;
\* they are in range as long as every call was given indices of vertices
\* added before it, and intersect has undefined behaviour exactly when a
\* stored index is not in range at the time of the call
C28_IndicesAsGiven ==
    unit.kind = "mesh" =>
       /\ unit.fits => ~ReadsOutside(unit.mesh)
       /\ unit.op = "intersect" => (unit.res = "returned" <=> ~ReadsOutside(unit.mesh))

\* a triangle was added before its third vertex and the mesh intersected
C28_Witness ==
    /\ unit.kind = "mesh"
    /\ unit.op = "intersect"
    /\ vertex_count(unit.mesh) = 2
    /\ ~unit.fits
    /\ unit.res = "undefined: crashed"

(***************************************************************************)
(* RangeSpec: paths entered with the camera's rays and with rays a caller  *)
(* hands to trace_ray with a [tmin, tmax] of its own, followed iteration   *)
(* by iteration with the draws recorded.                                   *)
(***************************************************************************)

\* the [tmin, tmax] of the rays a caller builds itself
CallerRanges == {<<0, 1000>>, <<5, 45>>}

EnteringRays(sc) ==
    {PrimaryRay(sc, x) : x \in {0, 1, 2}}
    \cup {MkRay(x, 0, 1, r[1], r[2]) : x \in {0, 1, 2}, r \in CallerRanges}

InitRange ==
    /\ cfg \in {[IdleCfg EXCEPT !.max_depth = md] : md \in {1, RouletteDepth + 1}}
    /\ scene \in BounceScenes
    /\ out = IdleOut
    /\ writers = <<>>
    /\ pc = "off"
    /\ threads = <<>>
    /\ spawn_t = 0
    /\ y0 = 0
    /\ join_i = 0
    /\ unit = IdleUnit
    /\ thrown = NoThrow
    /\ scan \in {[ray |-> r, done |-> FALSE] : r \in EnteringRays(scene)}
    /\ path = [IdlePath EXCEPT !.pc = "call"]

RangeSpec == InitRange /\ [][NextBounce]_vars

\* the ray is a camera ray of the scene
IsCameraRay == \E x \in {0, 1, 2} : scan.ray = PrimaryRay(scene, x)

\* C29: the ray an iteration of path_trace_ leaves for the next one, in any
\* of the five branches (total internal reflection, reflection, refraction,
\* specular, diffuse), has the tmin and tmax of the ray the iteration
\* started with, hence of the ray that entered the path, which for a camera
\* ray are the camera's near and far; its origin is the hit point moved by
\* 1e-4 along the new direction, and its direction is the new one, of unit
\* length.  An iteration that samples no direction leaves the ray alone.
C29_BounceKeepsRange ==
    /\ IsCameraRay => scan.ray.tmin = scene.camera.near /\ scan.ray.tmax = scene.camera.far
    /\ path.pc \in {"loop", "done"} =>
          /\ path.ray.tmin = scan.ray.tmin
          /\ path.ray.tmax = scan.ray.tmax
    /\ unit.kind = "bounce" =>
          LET st == unit.before
              hit == NearestHit(scene.objects, st.ray)
          IN  IF Scattered
              THEN /\ path.ray.tmin = st.ray.tmin
                   /\ path.ray.tmax = st.ray.tmax
                   /\ path.ray.d \in {-1, 1}
                   /\ path.ray.o = [x |-> hit.best_p.x,
                                    z |-> hit.best_p.z + path.ray.d * EpsOffset]
              ELSE path.ray = st.ray

\* a second bounce of a path entered with a caller's range, and a bounce of
\* a camera ray, are both reached; here the former, after a first bounce
\* that turned the ray around
C29_Witness ==
    /\ unit.kind = "bounce"
    /\ Scattered
    /\ ~IsCameraRay
    /\ scan.ray.tmin = 5
    /\ unit.before.depth >= 1
    /\ unit.before.ray.o # scan.ray.o
    /\ path.ray.d # unit.before.ray.d

(***************************************************************************)
(* SeedSpec: renders of one-column images of every height up to            *)
(* MaxSeedHeight on machines of every hardware_concurrency up to           *)
(* MaxSeedHw, under global seeds whose mixing carries and wraps.           *)
(***************************************************************************)
MaxSeedHeight == 5
MaxSeedHw == 5

\* 2^64 - 1 and 2^63; the seeds also include 0, the default and the
\* mixing constant itself
AllOnes == <<Limb - 1, Limb - 1, Limb - 1, Limb - 1>>
TopBit == <<0, 0, 0, Limb \div 2>>
GlobalSeeds == {Word(0), DefaultSeed, AllOnes, TopBit, Golden}

InitSeed ==
    /\ cfg \in {[renderer |-> "pt", hw |-> hw, width |-> 1, height |-> h,
                 spp |-> 1, max_depth |-> 1, seed |-> s] :
                    hw \in 0..MaxSeedHw, h \in 1..MaxSeedHeight, s \in GlobalSeeds}
    /\ scene = IdleScene
    /\ out = IdleOut
    /\ writers = <<>>
    /\ pc = "idle"
    /\ threads = <<>>
    /\ spawn_t = 0
    /\ y0 = 0
    /\ join_i = 0
    /\ unit = IdleUnit
    /\ thrown = NoThrow
    /\ scan = IdleScan
    /\ path = IdlePath

NextSeed ==
    \/ RenderBegin
    \/ Spawn
    \/ Join
    \/ \E i \in 1..(MaxSeedHw + 1) : Worker(i)

SeedSpec == InitSeed /\ [][NextSeed]_vars

\* the key worker i (from 1) was seeded with
KeyOf(i) == RangeKey(threads[i].y_begin, threads[i].y_end, i - 1)

\* C30: within one render the workers' seeds are pairwise distinct, whatever
\* the global seed: each worker has at least one row, so the row starts
\* differ, so the keys (y0 << 32) ^ y1 ^ t differ in their upper halves, and
\* mix_seed with a fixed first argument maps different keys to different
\* seeds.  Each worker's generator starts from its own seed.
C30_WorkerSeedsDistinct ==
    \A i, j \in 1..Len(threads) :
        /\ threads[i].seed = mix_seed(cfg.seed, KeyOf(i))
        /\ threads[i].y_begin < threads[i].y_end
        /\ i # j =>
              /\ threads[i].y_begin # threads[j].y_begin
              /\ KeyOf(i) # KeyOf(j)
              /\ threads[i].seed # threads[j].seed
              /\ RngOwner(i) # RngOwner(j)

\* a finished render with more than three workers under the seed 2^64 - 1,
\* two of them with equal y1 ^ t
C30_Witness ==
    /\ pc = "done"
    /\ cfg.seed = AllOnes
    /\ Len(threads) > 3
    /\ \E i, j \in 1..Len(threads) :
          i # j /\ BitXor[threads[i].y_end, i - 1] = BitXor[threads[j].y_end, j - 1]

====
